---------------------------- MODULE Spec2Model ----------------------------
(***************************************************************************)
(* Gesture routines: the $1 recognizer's decision pipeline, the validator, *)
(* the recognition engine with its sequential executor, the routine store  *)
(* and the execution canvas that drives them.                              *)
(*                                                                         *)
(* Numbers.  Scores and distances are kept in thousandths: a score of 0.80 *)
(* is 800, and a distance is measured in thousandths of HalfDiagonal, so   *)
(* that score = 1 - distance / HalfDiagonal becomes 1000 - distance.       *)
(*                                                                         *)
(* Strokes.  A raw stroke is its number of points and the shape it traces. *)
(* The floating-point geometry of the recognizer is not reproduced: a      *)
(* shape is a position in a one-dimensional shape space and the distance   *)
(* at the best angle between two normalized strokes is the gap between     *)
(* their positions.  The catalogue of shapes is chosen so that the pairs   *)
(* score exactly on, just above, between and below the two thresholds.     *)
(* Two things the arithmetic of the recognizer does to particular strokes  *)
(* are kept: the division by a bounding box without height, which turns    *)
(* every coordinate of a flat line into NaN, and the comparisons of        *)
(* resample that are ties in exact arithmetic, which rounding decides.     *)
(***************************************************************************)
EXTENDS Integers, Sequences, FiniteSets, TLC

(***************************************************************************)
(* Program constants                                                       *)
(***************************************************************************)
NumPoints == 64

RECOGNITION_THRESHOLD == 800

SIMILARITY_THRESHOLD == 780

MIN_POINTS == 5

CANVAS_MIN_POINTS == 5

Infinity == 1000000

(***************************************************************************)
(* Bounds                                                                  *)
(***************************************************************************)
MaxSamples == 1

MaxPoints == 6

(***************************************************************************)
(* Catalogues of inputs                                                    *)
(***************************************************************************)
Names == {"A", "B"}

NoName == ""

\* 0/200 score 800, 0/220 score 780, 220/430 score 790, 200/430 score 770,
\* 200/220 score 980, 1500 scores below zero against every other shape.
Shapes == {0, 200, 220, 430, 1500}

PointCounts == 4 .. MaxPoints

Strokes == [n : PointCounts, shape : Shapes]

\* strokes long enough for the drawing surfaces to submit them
SampleStrokes == {s \in Strokes : s.n > CANVAS_MIN_POINTS}

SeqsUpTo(S, k) == UNION {[1..m -> S] : m \in 0..k}

(***************************************************************************)
(* DollarRecognizer                                                        *)
(***************************************************************************)
Abs(x) == IF x < 0 THEN -x ELSE x

\* the shape of a stroke along one axis: after rotateBy its bounding box has
\* no height
FlatLine == -2

\* the coordinates and distances that are not numbers
NaN == -1

\* how far the doubled points of resample move a stroke in the shape space
DuplicateShift == 40

\* A stroke whose first segment is at least I = pathLength / (n - 1) long has
\* a field ties.  The loop of resample does not advance i after it inserts
\* q, so its next pass measures srcPts[i - 1] to q with D = 0: that distance
\* is I in exact arithmetic and rounding decides (D + d) >= I.  "advance":
\* the comparison fails and the loop goes on; "repeat": it holds a few
\* times and q is inserted again before the loop goes on; "forever": it
\* holds with the same q each time.
TieOutcomes == {"advance", "repeat", "forever"}

HasTies(points) == "ties" \in DOMAIN points

\* the while loop of resample ends
resampleReturns(points) == ~(HasTies(points) /\ points.ties = "forever")

resample(points) ==
    [n |-> NumPoints,
     shape |-> IF HasTies(points) /\ points.ties = "repeat" /\ points.shape # FlatLine
               THEN points.shape + DuplicateShift
               ELSE points.shape]

\* p.x * (size / B.width), p.y * (size / B.height): B.height = 0 gives
\* Infinity, and translateToOrigin subtracts the centroid from it
scaleToSquare(points) ==
    [points EXCEPT !.shape = IF @ = FlatLine THEN NaN ELSE @]

normalize(points) == scaleToSquare(resample(points))

distanceAtBestAngle(candidate, sample) ==
    IF candidate.shape = NaN \/ sample.shape = NaN
    THEN NaN
    ELSE Abs(candidate.shape - sample.shape)

\* a < b of two numbers: no comparison with NaN holds
LessThan(a, b) == a # NaN /\ b # NaN /\ a < b

\* every sample of every template group, in iteration order
RECURSIVE FlattenTemplates(_)
FlattenTemplates(templates) ==
    IF templates = <<>> THEN <<>>
    ELSE [i \in 1..Len(Head(templates).points) |->
              [name |-> Head(templates).name, sample |-> Head(templates).points[i]]]
         \o FlattenTemplates(Tail(templates))

\* the double loop with a later sample replacing the best at equal distance
RECURSIVE BestMatch_lastAtTies(_, _, _)
BestMatch_lastAtTies(candidate, pairs, best) ==
    IF pairs = <<>> THEN best
    ELSE LET distance == distanceAtBestAngle(candidate, normalize(Head(pairs).sample))
             next == IF distance # NaN /\ distance <= best.bestDistance
                     THEN [bestDistance |-> distance, bestTemplate |-> Head(pairs).name]
                     ELSE best
         IN BestMatch_lastAtTies(candidate, Tail(pairs), next)

\* the double loop of recognize: a strictly smaller distance replaces the best
RECURSIVE BestMatch(_, _, _)
BestMatch(candidate, pairs, best) ==
    IF pairs = <<>> THEN best
    ELSE LET distance == distanceAtBestAngle(candidate, normalize(Head(pairs).sample))
             next == IF LessThan(distance, best.bestDistance)
                     THEN [bestDistance |-> distance, bestTemplate |-> Head(pairs).name]
                     ELSE best
         IN BestMatch(candidate, Tail(pairs), next)

\* recognize returns: every call of normalize it makes comes back
recognizeReturns(candidateRaw, templates) ==
    \/ candidateRaw.n < 5
    \/ /\ resampleReturns(candidateRaw)
       /\ \A i \in 1..Len(FlattenTemplates(templates)) :
             resampleReturns(FlattenTemplates(templates)[i].sample)

\* normalized counts the calls of normalize, compared those of distanceAtBestAngle
DollarRecognizer_recognize(candidateRaw, templates) ==
    IF candidateRaw.n < 5
    THEN [name |-> NoName, score |-> 0, normalized |-> 0, compared |-> 0]
    ELSE LET pairs == FlattenTemplates(templates)
             best == BestMatch(normalize(candidateRaw), pairs,
                               [bestDistance |-> Infinity, bestTemplate |-> NoName])
         IN [name |-> best.bestTemplate,
             score |-> 1000 - best.bestDistance,
             normalized |-> 1 + Len(pairs),
             compared |-> Len(pairs)]


(***************************************************************************)
(* Routine records and the store's map, kept in insertion order as the     *)
(* entries of a JavaScript object are.                                     *)
(***************************************************************************)
Undefined == "<undefined>"

NoRoutine ==
    [name |-> Undefined, commands |-> <<>>, samples |-> <<>>, enabled |-> FALSE, delay |-> 0,
     createdAt |-> 0, updatedAt |-> 0]

Keys(rts) == {rts[i].name : i \in 1..Len(rts)}

Has(rts, name) == name \in Keys(rts)

IndexOf(rts, name) == CHOOSE i \in 1..Len(rts) : rts[i].name = name

Get(rts, name) == IF Has(rts, name) THEN rts[IndexOf(rts, name)] ELSE NoRoutine

\* obj[name] = r : an existing key keeps its place, a new key goes last
Put(rts, r) ==
    IF Has(rts, r.name)
    THEN [rts EXCEPT ![IndexOf(rts, r.name)] = r]
    ELSE Append(rts, r)

\* delete obj[name]
Remove(rts, name) == SelectSeq(rts, LAMBDA r : r.name # name)

(***************************************************************************)
(* RoutineManager                                                          *)
(***************************************************************************)
\* String.prototype.trim on the names the inputs are drawn from
Trim(s) ==
    CASE s = " A" -> "A"
      [] s = "B " -> "B"
      [] s = " "  -> ""
      [] OTHER    -> s

getAll(rts) == rts

\* getEnabled without its filter
getEnabled_unfiltered(rts) == rts

getEnabled(rts) == SelectSeq(rts, LAMBDA r : r.enabled # FALSE)

getAllGestures(rts) ==
    LET withSamples == SelectSeq(rts, LAMBDA r : Len(r.samples) > 0)
    IN [i \in 1..Len(withSamples) |->
            [name |-> withSamples[i].name, points |-> withSamples[i].samples]]

\* the input validation of save_routine: TRUE when it throws
save_routine_throws(routine) ==
    \/ Len(Trim(routine.name)) = 0
    \/ Len(routine.commands) = 0
    \/ Len(routine.samples) = 0

\* save_routine stamping createdAt anew on every save
save_routine_resetsCreatedAt(rts, routine, now) ==
    IF save_routine_throws(routine) THEN rts
    ELSE Put(rts, [name      |-> Trim(routine.name),
                   commands  |-> routine.commands,
                   samples   |-> routine.samples,
                   enabled   |-> IF "enabled" \in DOMAIN routine
                                 THEN routine.enabled ELSE TRUE,
                   delay     |-> routine.delay,
                   createdAt |-> now,
                   updatedAt |-> now])

\* the map after save_routine(routine) called at time now: the record is the
\* spread of the given routine under its trimmed name, with createdAt kept from
\* the record it replaces (existing?.createdAt || now) and enabled defaulting
\* to true; the records of handleSaveRoutine carry no enabled flag
save_routine(rts, routine, now) ==
    IF save_routine_throws(routine) THEN rts
    ELSE LET key == Trim(routine.name)
             existing == Get(rts, key)
         IN Put(rts, [name      |-> key,
                      commands  |-> routine.commands,
                      samples   |-> routine.samples,
                      enabled   |-> IF "enabled" \in DOMAIN routine
                                    THEN routine.enabled ELSE TRUE,
                      delay     |-> routine.delay,
                      createdAt |-> IF existing.createdAt # 0
                                    THEN existing.createdAt ELSE now,
                      updatedAt |-> now])

\* save_routine as src/src/routineManager.ts has it: no validation, and the
\* name is the key as given
save_routine_unvalidated(rts, routine, now) ==
    LET existing == Get(rts, routine.name)
    IN Put(rts, [name      |-> routine.name,
                 commands  |-> routine.commands,
                 samples   |-> routine.samples,
                 enabled   |-> IF "enabled" \in DOMAIN routine
                               THEN routine.enabled ELSE TRUE,
                 delay     |-> routine.delay,
                 createdAt |-> IF existing.createdAt # 0
                               THEN existing.createdAt ELSE now,
                 updatedAt |-> now])

\* delete emptying the map
delete_all(rts, name) == IF ~Has(rts, name) THEN rts ELSE <<>>

delete(rts, name) == IF ~Has(rts, name) THEN rts ELSE Remove(rts, name)

\* toggle with the write of updatedAt left for a later turn
toggle_enabledOnly(rts, name, now) ==
    IF ~Has(rts, name) THEN rts
    ELSE [rts EXCEPT ![IndexOf(rts, name)] = [@ EXCEPT !.enabled = ~@]]

\* the map after toggle(name) called at time now
toggle(rts, name, now) ==
    IF ~Has(rts, name) THEN rts
    ELSE [rts EXCEPT ![IndexOf(rts, name)] =
             [@ EXCEPT !.enabled = ~@, !.updatedAt = now]]

(***************************************************************************)
(* GestureValidator                                                        *)
(***************************************************************************)
\* validate rejecting a score of exactly the similarity threshold
validate_atLeast(candidatePoints, existingGestures, excludeRoutineName) ==
    IF candidatePoints.n < MIN_POINTS
    THEN [isValid |-> FALSE, similarTo |-> Undefined, score |-> 0, normalized |-> 0]
    ELSE LET templates == SelectSeq(existingGestures,
                                    LAMBDA g : g.name # excludeRoutineName)
         IN IF Len(templates) = 0
            THEN [isValid |-> TRUE, similarTo |-> Undefined, score |-> 0, normalized |-> 0]
            ELSE LET result == DollarRecognizer_recognize(candidatePoints, templates)
                 IN IF result.score >= SIMILARITY_THRESHOLD
                    THEN [isValid |-> FALSE, similarTo |-> result.name,
                          score |-> result.score, normalized |-> result.normalized]
                    ELSE [isValid |-> TRUE, similarTo |-> Undefined,
                          score |-> result.score, normalized |-> result.normalized]

\* validate rejecting only above the recognition threshold
validate_atRecognitionThreshold(candidatePoints, existingGestures, excludeRoutineName) ==
    IF candidatePoints.n < MIN_POINTS
    THEN [isValid |-> FALSE, similarTo |-> Undefined, score |-> 0, normalized |-> 0]
    ELSE LET templates == SelectSeq(existingGestures,
                                    LAMBDA g : g.name # excludeRoutineName)
         IN IF Len(templates) = 0
            THEN [isValid |-> TRUE, similarTo |-> Undefined, score |-> 0, normalized |-> 0]
            ELSE LET result == DollarRecognizer_recognize(candidatePoints, templates)
                 IN IF result.score > RECOGNITION_THRESHOLD
                    THEN [isValid |-> FALSE, similarTo |-> result.name,
                          score |-> result.score, normalized |-> result.normalized]
                    ELSE [isValid |-> TRUE, similarTo |-> Undefined,
                          score |-> result.score, normalized |-> result.normalized]

\* validate without its own minimum of points
validate_noMinimum(candidatePoints, existingGestures, excludeRoutineName) ==
    IF FALSE
    THEN [isValid |-> FALSE, similarTo |-> Undefined, score |-> 0, normalized |-> 0]
    ELSE LET templates == SelectSeq(existingGestures,
                                    LAMBDA g : g.name # excludeRoutineName)
         IN IF Len(templates) = 0
            THEN [isValid |-> TRUE, similarTo |-> Undefined, score |-> 0, normalized |-> 0]
            ELSE LET result == DollarRecognizer_recognize(candidatePoints, templates)
                 IN IF result.score > SIMILARITY_THRESHOLD
                    THEN [isValid |-> FALSE, similarTo |-> result.name,
                          score |-> result.score, normalized |-> result.normalized]
                    ELSE [isValid |-> TRUE, similarTo |-> Undefined,
                          score |-> result.score, normalized |-> result.normalized]

\* validate comparing against the excluded routine too
validate_withoutExclusion(candidatePoints, existingGestures, excludeRoutineName) ==
    IF candidatePoints.n < MIN_POINTS
    THEN [isValid |-> FALSE, similarTo |-> Undefined, score |-> 0, normalized |-> 0]
    ELSE LET templates == existingGestures
         IN IF Len(templates) = 0
            THEN [isValid |-> TRUE, similarTo |-> Undefined, score |-> 0, normalized |-> 0]
            ELSE LET result == DollarRecognizer_recognize(candidatePoints, templates)
                 IN IF result.score > SIMILARITY_THRESHOLD
                    THEN [isValid |-> FALSE, similarTo |-> result.name,
                          score |-> result.score, normalized |-> result.normalized]
                    ELSE [isValid |-> TRUE, similarTo |-> Undefined,
                          score |-> result.score, normalized |-> result.normalized]

\* validate rejecting only above the recognition threshold
validate_upToRecognition(candidatePoints, existingGestures, excludeRoutineName) ==
    IF candidatePoints.n < MIN_POINTS
    THEN [isValid |-> FALSE, similarTo |-> Undefined, score |-> 0, normalized |-> 0]
    ELSE LET templates == SelectSeq(existingGestures,
                                    LAMBDA g : g.name # excludeRoutineName)
         IN IF Len(templates) = 0
            THEN [isValid |-> TRUE, similarTo |-> Undefined, score |-> 0, normalized |-> 0]
            ELSE LET result == DollarRecognizer_recognize(candidatePoints, templates)
                 IN IF result.score > RECOGNITION_THRESHOLD
                    THEN [isValid |-> FALSE, similarTo |-> result.name,
                          score |-> result.score, normalized |-> result.normalized]
                    ELSE [isValid |-> TRUE, similarTo |-> Undefined,
                          score |-> result.score, normalized |-> result.normalized]

validate(candidatePoints, existingGestures, excludeRoutineName) ==
    IF candidatePoints.n < MIN_POINTS
    THEN [isValid |-> FALSE, similarTo |-> Undefined, score |-> 0, normalized |-> 0]
    ELSE LET templates == SelectSeq(existingGestures,
                                    LAMBDA g : g.name # excludeRoutineName)
         IN IF Len(templates) = 0
            THEN [isValid |-> TRUE, similarTo |-> Undefined, score |-> 0, normalized |-> 0]
            ELSE LET result == DollarRecognizer_recognize(candidatePoints, templates)
                 IN IF result.score > SIMILARITY_THRESHOLD
                    THEN [isValid |-> FALSE, similarTo |-> result.name,
                          score |-> result.score, normalized |-> result.normalized]
                    ELSE [isValid |-> TRUE, similarTo |-> Undefined,
                          score |-> result.score, normalized |-> result.normalized]

\* validate returns: it calls recognize only with templates left to compare
validateReturns(candidatePoints, existingGestures, excludeRoutineName) ==
    LET templates == SelectSeq(existingGestures,
                               LAMBDA g : g.name # excludeRoutineName)
    IN \/ candidatePoints.n < MIN_POINTS
       \/ Len(templates) = 0
       \/ recognizeReturns(candidatePoints, templates)

(***************************************************************************)
(* GestureRecognitionEngine.recognize                                      *)
(***************************************************************************)
EngineTemplates(rts) ==
    LET enabledRoutines == getEnabled(rts)
    IN [i \in 1..Len(enabledRoutines) |->
            [name |-> enabledRoutines[i].name, points |-> enabledRoutines[i].samples]]

\* recognize returns: it reaches DollarRecognizer.recognize only with enough
\* points and at least one enabled routine
Engine_recognizeReturns(points, rts) ==
    \/ points.n < MIN_POINTS
    \/ Len(EngineTemplates(rts)) = 0
    \/ recognizeReturns(points, EngineTemplates(rts))

\* recognize with > in place of >=
Engine_recognize_strict(points, rts) ==
    IF points.n < MIN_POINTS
    THEN [recognized |-> FALSE, routineName |-> Undefined, score |-> 0,
          routine |-> NoRoutine, normalized |-> 0]
    ELSE LET templates == EngineTemplates(rts)
         IN IF Len(templates) = 0
            THEN [recognized |-> FALSE, routineName |-> Undefined, score |-> 0,
                  routine |-> NoRoutine, normalized |-> 0]
            ELSE LET result == DollarRecognizer_recognize(points, templates)
                 IN IF result.score > RECOGNITION_THRESHOLD
                    THEN [recognized |-> TRUE, routineName |-> result.name,
                          score |-> result.score,
                          routine |-> Get(getEnabled(rts), result.name),
                          normalized |-> result.normalized]
                    ELSE [recognized |-> FALSE, routineName |-> result.name,
                          score |-> result.score, routine |-> NoRoutine,
                          normalized |-> result.normalized]

Engine_recognize(points, rts) ==
    IF points.n < MIN_POINTS
    THEN [recognized |-> FALSE, routineName |-> Undefined, score |-> 0,
          routine |-> NoRoutine, normalized |-> 0]
    ELSE LET templates == EngineTemplates(rts)
         IN IF Len(templates) = 0
            THEN [recognized |-> FALSE, routineName |-> Undefined, score |-> 0,
                  routine |-> NoRoutine, normalized |-> 0]
            ELSE LET result == DollarRecognizer_recognize(points, templates)
                 IN IF result.score >= RECOGNITION_THRESHOLD
                    THEN [recognized |-> TRUE, routineName |-> result.name,
                          score |-> result.score,
                          routine |-> Get(getEnabled(rts), result.name),
                          normalized |-> result.normalized]
                    ELSE [recognized |-> FALSE, routineName |-> result.name,
                          score |-> result.score, routine |-> NoRoutine,
                          normalized |-> result.normalized]

(***************************************************************************)
(* State                                                                   *)
(***************************************************************************)
VARIABLES
    routines,           \* RoutineManager.routines
    isDrawing,          \* execution canvas
    points,
    isProcessing,
    processingTimeout,  \* id of the last safety timer, 0 for null
    gestureCount,
    recognizedCount,
    feedback,
    timers,             \* safety timers that are armed
    toHost,             \* recognizeGesture messages on their way to the host
    toWebview,          \* recognitionResult messages on their way to the canvas
    handlers,           \* one recognizeAndExecute call per received message
    panel,              \* configuration panel: the state of webview/configuration.js
    cfgToHost,          \* messages of the configuration panel on their way to the host
    cfgToWebview,       \* messages of the host on their way to the configuration panel
    hostTimers,         \* validateGesture messages deferred with setTimeout(..., 0)
    clock,              \* Date.now()
    persisted,          \* globalState: the routine map in storage
    writes,             \* globalState.update calls that have not completed, in order
    lastCall,           \* the last call of a RoutineManager method and what it returned
    held,               \* a map that getAll() or getEnabled() returned to a caller
    build,              \* which of the two copies of RoutineManager is running
    provider,           \* ExecutionCanvasProvider: its panel, and the requests
                        \* that the panels it has disposed had sent
    pure                \* inputs and results of the pure functions under test

storeVars == <<routines>>

canvasVars ==
    <<isDrawing, points, isProcessing, processingTimeout, gestureCount,
      recognizedCount, feedback, timers>>

hostVars == <<toHost, toWebview, handlers>>

configVars == <<panel, cfgToHost, cfgToWebview, hostTimers>>

managerVars == <<clock, persisted, writes, lastCall, held, build, provider>>

vars == <<routines, isDrawing, points, isProcessing, processingTimeout, gestureCount,
          recognizedCount, feedback, timers, toHost, toWebview, handlers,
          panel, cfgToHost, cfgToWebview, hostTimers,
          clock, persisted, writes, lastCall, held, build, provider, pure>>

(***************************************************************************)
(* More program constants, bounds and catalogues                           *)
(***************************************************************************)
MAX_POINTS == 500

MaxGestures == 2

MaxCmds == 3

HostCmd == [type |-> "vscode-command", command |-> "workbench.action.files.save"]

TermCmd == [type |-> "terminal-command", command |-> "npm test"]

DelayCmd == [type |-> "delay", command |-> "100"]

ZeroDelayCmd == [type |-> "delay", command |-> "0"]

Cmds == {HostCmd, TermCmd, DelayCmd, ZeroDelayCmd}

Delays == {0, 500}

NoStroke == [n |-> 0, shape |-> 0]

\* parseInt(cmd.command) || 0 on the payloads of the catalogue
parseIntOr0(s) ==
    CASE s = "100" -> 100
      [] s = "500" -> 500
      [] s = "0"   -> 0
      [] OTHER     -> 0

(***************************************************************************)
(* GestureRecognitionEngine.executeRoutine                                 *)
(*                                                                         *)
(* An execution is a record: i is the index of the current step (from 1),  *)
(* attempts[k] counts the dispatches of step k, throws[k] tells whether    *)
(* the collaborator of step k throws when it is called.  pc is the place   *)
(* where the call is suspended: "focus" in showTextDocument, "wait" in the *)
(* inter-command setTimeout, "run" in the await of a delay step or of      *)
(* executeCommand; "finished" once the loop has ended.                     *)
(***************************************************************************)
NoResult ==
    [recognized |-> FALSE, routineName |-> Undefined, score |-> 0,
     routine |-> NoRoutine, normalized |-> 0]

IdleHandler ==
    [pc |-> "idle", points |-> NoStroke, result |-> NoResult, routine |-> NoRoutine,
     delay |-> 0, i |-> 0, successCount |-> 0, failCount |-> 0,
     attempts |-> <<>>, throws |-> <<>>, caller |-> "direct", order |-> <<>>,
     calls |-> <<>>]

\* typeof cmdObj === 'string' ? { command: cmdObj, type: 'vscode-command' } :
\* cmdObj; a command stored as a plain string is the record of one field string
toRoutineCommand(cmdObj) ==
    IF "string" \in DOMAIN cmdObj
    THEN [command |-> cmdObj.string, type |-> "vscode-command"]
    ELSE cmdObj

\* the calls a step makes outside the engine: setTimeout with the parsed
\* payload, terminal.sendText, vscode.commands.executeCommand
TimerCall(i, ms) == [step |-> i, collaborator |-> "setTimeout", ms |-> ms]

TerminalCall(i, text) == [step |-> i, collaborator |-> "terminal", payload |-> text]

HostCall(i, id) == [step |-> i, collaborator |-> "executeCommand", payload |-> id]

StepSucceeds(e) ==
    [e EXCEPT !.successCount = @ + 1, !.i = @ + 1, !.order = Append(@, <<"end", e.i>>)]

\* a failing step that ends the loop
StepFails_aborting(e) ==
    [e EXCEPT !.failCount = @ + 1, !.i = Len(e.routine.commands) + 1,
              !.order = Append(@, <<"end", e.i>>)]

StepFails(e) ==
    [e EXCEPT !.failCount = @ + 1, !.i = @ + 1, !.order = Append(@, <<"end", e.i>>)]

RECURSIVE LoopFrom(_)
RECURSIVE Dispatch(_)

\* the loop head waiting before every later step, delay steps included
LoopFrom_waitsBeforeDelaySteps(e) ==
    IF e.i > Len(e.routine.commands) THEN [e EXCEPT !.pc = "finished"]
    ELSE IF e.i > 1 /\ e.delay > 0
         THEN [e EXCEPT !.pc = "wait", !.order = Append(@, <<"wait", e.i>>)]
         ELSE Dispatch(e)

\* the loop head without the inter-command wait being awaited
LoopFrom_notAwaited(e) ==
    IF e.i > Len(e.routine.commands) THEN [e EXCEPT !.pc = "finished"]
    ELSE IF e.i > 1 /\ e.delay > 0 /\ toRoutineCommand(e.routine.commands[e.i]).type # "delay"
         THEN Dispatch([e EXCEPT !.order = Append(@, <<"wait", e.i>>)])
         ELSE Dispatch(e)

\* the head of the for loop at step e.i, run until the next suspension
LoopFrom(e) ==
    IF e.i > Len(e.routine.commands) THEN [e EXCEPT !.pc = "finished"]
    ELSE IF e.i > 1 /\ e.delay > 0 /\ toRoutineCommand(e.routine.commands[e.i]).type # "delay"
         THEN [e EXCEPT !.pc = "wait", !.order = Append(@, <<"wait", e.i>>)]
         ELSE Dispatch(e)

\* the try block with a step of a type it does not know passed over
Dispatch_skipsUnknownTypes(e) ==
    LET cmd == toRoutineCommand(e.routine.commands[e.i])
        e1 == [e EXCEPT !.attempts[e.i] = @ + 1, !.order = Append(@, <<"begin", e.i>>)]
    IN CASE cmd.type = "delay" ->
              IF parseIntOr0(cmd.command) > 0
              THEN [e1 EXCEPT !.pc = "run",
                              !.calls = Append(@, TimerCall(e.i, parseIntOr0(cmd.command)))]
              ELSE LoopFrom(StepSucceeds(e1))
         [] cmd.type = "terminal-command" ->
              LET e2 == [e1 EXCEPT !.calls = Append(@, TerminalCall(e.i, cmd.command))]
              IN LoopFrom(IF e.throws[e.i] THEN StepFails(e2) ELSE StepSucceeds(e2))
         [] cmd.type = "vscode-command" ->
              [e1 EXCEPT !.pc = "run", !.calls = Append(@, HostCall(e.i, cmd.command))]
         [] OTHER -> LoopFrom(StepSucceeds(e1))

\* the try block of step e.i
Dispatch(e) ==
    LET cmd == toRoutineCommand(e.routine.commands[e.i])
        e1 == [e EXCEPT !.attempts[e.i] = @ + 1, !.order = Append(@, <<"begin", e.i>>)]
    IN CASE cmd.type = "delay" ->
              IF parseIntOr0(cmd.command) > 0
              THEN [e1 EXCEPT !.pc = "run",
                              !.calls = Append(@, TimerCall(e.i, parseIntOr0(cmd.command)))]
              ELSE LoopFrom(StepSucceeds(e1))
         [] cmd.type = "terminal-command" ->
              LET e2 == [e1 EXCEPT !.calls = Append(@, TerminalCall(e.i, cmd.command))]
              IN LoopFrom(IF e.throws[e.i] THEN StepFails(e2) ELSE StepSucceeds(e2))
         [] OTHER ->
              [e1 EXCEPT !.pc = "run", !.calls = Append(@, HostCall(e.i, cmd.command))]

\* the awaited promise of step e.i settles
Resume(e) ==
    LET cmd == toRoutineCommand(e.routine.commands[e.i])
    IN IF cmd.type = "delay" THEN LoopFrom(StepSucceeds(e))
       ELSE LoopFrom(IF e.throws[e.i] THEN StepFails(e) ELSE StepSucceeds(e))

\* executeRoutine(routine, targetEditor) up to its first suspension
executeRoutine(e, routine, throws, hasEditor) ==
    LET e0 == [e EXCEPT !.routine = routine,
                        !.delay = routine.delay,
                        !.i = 1,
                        !.successCount = 0,
                        !.failCount = 0,
                        !.attempts = [k \in 1..Len(routine.commands) |-> 0],
                        !.throws = throws,
                        !.order = <<>>,
                        !.calls = <<>>]
    IN IF hasEditor THEN [e0 EXCEPT !.pc = "focus"] ELSE LoopFrom(e0)

\* the collaborators that can throw are those of the steps that are not delays
ThrowPatterns(commands) ==
    {t \in [1..Len(commands) -> BOOLEAN] :
        \A k \in 1..Len(commands) : commands[k].type = "delay" => ~t[k]}

(***************************************************************************)
(* Execution canvas (webview/executionCanvas.js)                           *)
(***************************************************************************)
CanvasShapes == {0, 200, 430}

\* startDrawing(e), with the draw(e) it ends with.  While the stroke is being
\* drawn only its number of points is kept; the shape it has traced is known
\* when it ends.
startDrawing ==
    /\ isDrawing' = TRUE
    /\ points' = [n |-> 1, shape |-> 0]
    /\ UNCHANGED <<isProcessing, processingTimeout, gestureCount, recognizedCount,
                   feedback, timers>>
    /\ UNCHANGED <<routines, toHost, toWebview, handlers, pure>>
    /\ UNCHANGED configVars
    /\ UNCHANGED managerVars

draw ==
    /\ isDrawing
    /\ points.n < MAX_POINTS
    /\ points.n < MaxPoints
    /\ points' = [points EXCEPT !.n = @ + 1]
    /\ UNCHANGED <<isDrawing, isProcessing, processingTimeout, gestureCount,
                   recognizedCount, feedback, timers>>
    /\ UNCHANGED <<routines, toHost, toWebview, handlers, pure>>
    /\ UNCHANGED configVars
    /\ UNCHANGED managerVars

\* stopDrawing without its check of isProcessing
stopDrawing_withoutDebounce(shape) ==
    /\ isDrawing
    /\ isDrawing' = FALSE
    /\ points' = NoStroke
    /\ IF points.n > CANVAS_MIN_POINTS
       THEN /\ gestureCount < MaxGestures
            /\ isProcessing' = TRUE
            /\ gestureCount' = gestureCount + 1
            /\ timers' = (timers \ {processingTimeout}) \cup {gestureCount + 1}
            /\ processingTimeout' = gestureCount + 1
            /\ toHost' = Append(toHost, [req |-> gestureCount + 1,
                                         points |-> [points EXCEPT !.shape = shape]])
            /\ UNCHANGED feedback
       ELSE /\ feedback' = "Gesto muy corto"
            /\ UNCHANGED <<isProcessing, processingTimeout, gestureCount, timers, toHost>>
    /\ UNCHANGED <<recognizedCount, routines, toWebview, handlers, pure>>
    /\ UNCHANGED configVars
    /\ UNCHANGED managerVars

\* stopDrawing(); the message carries the number of the gesture, which the
\* program does not send, to tell the requests apart
stopDrawing(shape) ==
    /\ isDrawing
    /\ isDrawing' = FALSE
    /\ points' = NoStroke
    /\ IF points.n > CANVAS_MIN_POINTS
       THEN IF isProcessing
            THEN /\ feedback' = "Procesando..."
                 /\ UNCHANGED <<isProcessing, processingTimeout, gestureCount,
                                timers, toHost>>
            ELSE /\ provider.earlier + gestureCount < MaxGestures
                 /\ isProcessing' = TRUE
                 /\ gestureCount' = gestureCount + 1
                 /\ timers' = (timers \ {processingTimeout}) \cup {gestureCount + 1}
                 /\ processingTimeout' = gestureCount + 1
                 /\ toHost' = Append(toHost, [req |-> provider.earlier + gestureCount + 1,
                                              points |-> [points EXCEPT !.shape = shape]])
                 /\ UNCHANGED feedback
       ELSE /\ feedback' = "Gesto muy corto"
            /\ UNCHANGED <<isProcessing, processingTimeout, gestureCount, timers, toHost>>
    /\ UNCHANGED <<recognizedCount, routines, toWebview, handlers, pure>>
    /\ UNCHANGED configVars
    /\ UNCHANGED managerVars

\* the callback of the safety timer showing its notice without resetting isProcessing
processingTimeoutFires_withoutReset(t) ==
    /\ t \in timers
    /\ timers' = timers \ {t}
    /\ IF isProcessing
       THEN /\ feedback' = "Timeout - reintenta"
            /\ UNCHANGED isProcessing
       ELSE UNCHANGED <<isProcessing, feedback>>
    /\ UNCHANGED <<isDrawing, points, processingTimeout, gestureCount, recognizedCount>>
    /\ UNCHANGED <<routines, toHost, toWebview, handlers, pure>>
    /\ UNCHANGED configVars
    /\ UNCHANGED managerVars

\* the callback of the safety timer t
processingTimeoutFires(t) ==
    /\ t \in timers
    /\ timers' = timers \ {t}
    /\ IF isProcessing
       THEN /\ isProcessing' = FALSE
            /\ feedback' = "Timeout - reintenta"
       ELSE UNCHANGED <<isProcessing, feedback>>
    /\ UNCHANGED <<isDrawing, points, processingTimeout, gestureCount, recognizedCount>>
    /\ UNCHANGED <<routines, toHost, toWebview, handlers, pure>>
    /\ UNCHANGED configVars
    /\ UNCHANGED managerVars

\* the message listener of the canvas, on a recognitionResult
onRecognitionResult ==
    /\ toWebview # <<>>
    /\ LET message == Head(toWebview)
       IN /\ isProcessing' = FALSE
          /\ timers' = timers \ {processingTimeout}
          /\ processingTimeout' = 0
          /\ IF message.recognized
             THEN /\ recognizedCount' = recognizedCount + 1
                  /\ feedback' = "[OK]"
             ELSE /\ UNCHANGED recognizedCount
                  /\ feedback' = "[X] No reconocido"
    /\ toWebview' = Tail(toWebview)
    /\ UNCHANGED <<isDrawing, points, gestureCount>>
    /\ UNCHANGED <<routines, toHost, handlers, pure>>
    /\ UNCHANGED configVars
    /\ UNCHANGED managerVars

(***************************************************************************)
(* Host: ExecutionCanvasProvider and the engine's asynchronous calls       *)
(***************************************************************************)
recognitionResult(h, e) ==
    [req |-> h, recognized |-> e.result.recognized,
     routineName |-> e.result.routineName, score |-> e.result.score]

\* the call returning a verdict that the failures of the execution have changed
Settle_failuresChangeVerdict(h, e) ==
    LET r == [e EXCEPT !.result.recognized = @ /\ e.failCount = 0]
    IN IF e.pc = "finished"
       THEN CASE e.caller = "canvas" ->
                   /\ handlers' = [handlers EXCEPT ![h] = IdleHandler]
                   /\ toWebview' = IF provider.panel # 0
                                   THEN Append(toWebview, recognitionResult(h, r))
                                   ELSE toWebview
              [] e.caller = "engine" ->
                   /\ handlers' = [handlers EXCEPT ![h] = IdleHandler]
                   /\ UNCHANGED toWebview
              [] OTHER ->
                   /\ handlers' = [handlers EXCEPT ![h] = [r EXCEPT !.pc = "done"]]
                   /\ UNCHANGED toWebview
       ELSE /\ handlers' = [handlers EXCEPT ![h] = e]
            /\ UNCHANGED toWebview

\* handler h has run up to e.  When executeRoutine has ended there,
\* recognizeAndExecute returns and the call is over; for the canvas,
\* handleRecognition then posts the result.  A direct call keeps what it
\* returned.
Settle(h, e) ==
    IF e.pc = "finished"
    THEN CASE e.caller = "canvas" ->
                /\ handlers' = [handlers EXCEPT ![h] = IdleHandler]
                /\ toWebview' = IF provider.panel # 0
                                THEN Append(toWebview, recognitionResult(h, e))
                                ELSE toWebview
           [] e.caller = "engine" ->
                /\ handlers' = [handlers EXCEPT ![h] = IdleHandler]
                /\ UNCHANGED toWebview
           [] OTHER ->
                /\ handlers' = [handlers EXCEPT ![h] = [e EXCEPT !.pc = "done"]]
                /\ UNCHANGED toWebview
    ELSE /\ handlers' = [handlers EXCEPT ![h] = e]
         /\ UNCHANGED toWebview

\* onDidReceiveMessage -> handleRecognition -> recognizeAndExecute ->
\* recognizeAsync, which defers the recognition with setImmediate
onDidReceiveMessage ==
    /\ toHost # <<>>
    /\ LET message == Head(toHost)
       IN handlers' = [handlers EXCEPT ![message.req] =
                          [IdleHandler EXCEPT !.pc = "immediate",
                                              !.points = message.points,
                                              !.caller = "canvas"]]
    /\ toHost' = Tail(toHost)
    /\ UNCHANGED <<routines, toWebview, pure>>
    /\ UNCHANGED canvasVars
    /\ UNCHANGED configVars
    /\ UNCHANGED managerVars

\* the setImmediate callback and the continuation of recognizeAndExecute.  When
\* this.recognize(points) does not return the callback never ends: the promise
\* of recognizeAsync stays unresolved and the call stays in "recognizing".
recognizeAndExecute(h) ==
    /\ handlers[h].pc = "immediate"
    /\ IF Engine_recognizeReturns(handlers[h].points, routines)
       THEN \E result \in {Engine_recognize(handlers[h].points, routines)} :
               \E e \in {[handlers[h] EXCEPT !.result = result]} :
                  IF result.recognized /\ result.routine # NoRoutine
                  THEN \E throws \in ThrowPatterns(result.routine.commands),
                          hasEditor \in BOOLEAN :
                          \E done \in {executeRoutine(e, result.routine, throws, hasEditor)} :
                             Settle(h, done)
                  ELSE Settle(h, [e EXCEPT !.pc = "finished"])
       ELSE Settle(h, [handlers[h] EXCEPT !.pc = "recognizing"])
    /\ UNCHANGED <<routines, toHost, pure>>
    /\ UNCHANGED canvasVars
    /\ UNCHANGED configVars
    /\ UNCHANGED managerVars

\* showTextDocument settles, whichever way
focusRestored(h) ==
    /\ handlers[h].pc = "focus"
    /\ Settle(h, LoopFrom(handlers[h]))
    /\ UNCHANGED <<routines, toHost, pure>>
    /\ UNCHANGED canvasVars
    /\ UNCHANGED configVars
    /\ UNCHANGED managerVars

\* the continuation after the wait taking the routine from the store again
waitElapsed_rereadsStore(h) ==
    /\ handlers[h].pc = "wait"
    /\ LET name == handlers[h].routine.name
           current == IF Has(routines, name) THEN Get(routines, name)
                      ELSE handlers[h].routine
       IN IF handlers[h].i > Len(current.commands)
          THEN Settle(h, [handlers[h] EXCEPT !.routine = current, !.pc = "finished"])
          ELSE Settle(h, Dispatch([handlers[h] EXCEPT
                                      !.routine = current,
                                      !.delay = current.delay,
                                      !.order = Append(@, <<"waited", handlers[h].i>>)]))
    /\ UNCHANGED <<routines, toHost, pure>>
    /\ UNCHANGED canvasVars
    /\ UNCHANGED configVars
    /\ UNCHANGED managerVars

\* the inter-command setTimeout fires
waitElapsed(h) ==
    /\ handlers[h].pc = "wait"
    /\ Settle(h, Dispatch([handlers[h] EXCEPT
                              !.order = Append(@, <<"waited", handlers[h].i>>)]))
    /\ UNCHANGED <<routines, toHost, pure>>
    /\ UNCHANGED canvasVars
    /\ UNCHANGED configVars
    /\ UNCHANGED managerVars

\* the promise of the running step settles
stepSettles(h) ==
    /\ handlers[h].pc = "run"
    /\ Settle(h, Resume(handlers[h]))
    /\ UNCHANGED <<routines, toHost, pure>>
    /\ UNCHANGED canvasVars
    /\ UNCHANGED configVars
    /\ UNCHANGED managerVars

(***************************************************************************)
(* Configuration panel (webview/configuration.js)                          *)
(*                                                                         *)
(* panel holds the script's variables and the parts of the document the    *)
(* handlers read: which view and step are shown, the value of the name and *)
(* delay inputs and the disabled flags of the Next and Save buttons.       *)
(* pendingValidation is NoStroke for null, editingRoutineName Null.        *)
(***************************************************************************)
Null == "<null>"

REQUIRED_SAMPLES == 3

MaxValidations == 3

MaxInFlight == 1

MaxSelected == 1

InputNames == {"A", "B"}

ConfigShapes == {0, 430}

SaveBlock ==
    [id |-> "save", label |-> "Guardar", command |-> "workbench.action.files.save",
     type |-> "vscode-command"]

\* String(r.delay || 0), as the assignment to routineDelayInput.value converts it
DelayToInput(d) ==
    CASE d = 500 -> "500"
      [] d = 100 -> "100"
      [] OTHER   -> "0"

\* the entries of selectedCommands that editRoutine builds from stored commands
ToSelected(commands) ==
    [k \in 1..Len(commands) |->
        [id |-> commands[k].command,
         label |-> IF "label" \in DOMAIN commands[k] THEN commands[k].label
                   ELSE commands[k].command,
         command |-> commands[k].command, type |-> commands[k].type]]

\* selectedCommands.map(b => ({command, type, label})) of the save message
ToCommands(selected) ==
    [k \in 1..Len(selected) |->
        [command |-> selected[k].command, type |-> selected[k].type,
         label |-> selected[k].label]]

ClosedPanel ==
    [open |-> FALSE, view |-> "main", step |-> 1,
     routineNameInput |-> "", routineDelayInput |-> "0",
     selectedCommands |-> <<>>, recordedSamples |-> <<>>,
     editingRoutineName |-> Null, pendingValidation |-> NoStroke,
     validationRequestId |-> 0,
     btnNextStepDisabled |-> TRUE, btnSaveRoutineDisabled |-> TRUE,
     painting |-> FALSE, points |-> NoStroke, routines |-> <<>>, timers |-> <<>>]

validateStep1(p) ==
    LET name == Trim(p.routineNameInput)
        hasName == Len(name) > 0
        hasCommands == Len(p.selectedCommands) > 0
        isDuplicate == hasName /\ Has(p.routines, name) /\ name # p.editingRoutineName
    IN [p EXCEPT !.btnNextStepDisabled = ~(hasName /\ hasCommands /\ ~isDuplicate)]

resetCreateForm(p) ==
    [validateStep1([p EXCEPT !.routineNameInput = "",
                             !.routineDelayInput = "0",
                             !.selectedCommands = <<>>,
                             !.recordedSamples = <<>>,
                             !.editingRoutineName = Null,
                             !.btnSaveRoutineDisabled = TRUE])
        EXCEPT !.step = 1]

editRoutine(p, name) ==
    IF ~Has(p.routines, name) THEN p
    ELSE LET r == Get(p.routines, name)
         IN [validateStep1([p EXCEPT !.editingRoutineName = name,
                                     !.routineNameInput = r.name,
                                     !.routineDelayInput = DelayToInput(r.delay),
                                     !.selectedCommands = ToSelected(r.commands),
                                     !.recordedSamples = r.samples])
                EXCEPT !.btnSaveRoutineDisabled = Len(r.samples) < REQUIRED_SAMPLES,
                       !.view = "create",
                       !.step = 1]

handleGestureValidation(p, message) ==
    IF ~message.isValid THEN [p EXCEPT !.pendingValidation = NoStroke]
    ELSE IF p.pendingValidation # NoStroke
         THEN LET recorded == Append(p.recordedSamples, p.pendingValidation)
              IN [p EXCEPT !.recordedSamples = recorded,
                           !.pendingValidation = NoStroke,
                           !.btnSaveRoutineDisabled =
                               IF Len(recorded) >= REQUIRED_SAMPLES THEN FALSE ELSE @]
         ELSE p

\* messages between the panel and the host that have not been handled yet
InFlight == Len(cfgToHost) + Len(hostTimers) + Len(cfgToWebview)

\* what a handler of the panel leaves alone besides panel and cfgToHost
PanelFrame ==
    /\ UNCHANGED <<routines, cfgToWebview, hostTimers, pure>>
    /\ UNCHANGED managerVars
    /\ UNCHANGED canvasVars
    /\ UNCHANGED hostVars

btnNewRoutineClick ==
    /\ panel.open /\ panel.view = "main" /\ ~panel.painting
    /\ panel' = resetCreateForm([panel EXCEPT !.view = "create"])
    /\ UNCHANGED cfgToHost
    /\ PanelFrame

btnCancelCreateClick ==
    /\ panel.open /\ panel.view = "create" /\ panel.step = 1 /\ ~panel.painting
    /\ panel' = [panel EXCEPT !.view = "main"]
    /\ UNCHANGED cfgToHost
    /\ PanelFrame

btnBackStepClick ==
    /\ panel.open /\ panel.view = "create" /\ panel.step = 2 /\ ~panel.painting
    /\ panel' = [panel EXCEPT !.step = 1]
    /\ UNCHANGED cfgToHost
    /\ PanelFrame

btnNextStepClick ==
    /\ panel.open /\ panel.view = "create" /\ panel.step = 1 /\ ~panel.painting
    /\ ~panel.btnNextStepDisabled
    /\ panel' = [panel EXCEPT !.step = 2, !.recordedSamples = <<>>]
    /\ UNCHANGED cfgToHost
    /\ PanelFrame

btnSaveRoutineClick ==
    /\ panel.open /\ panel.view = "create" /\ panel.step = 2 /\ ~panel.painting
    /\ ~panel.btnSaveRoutineDisabled
    /\ InFlight < MaxInFlight
    /\ cfgToHost' = Append(cfgToHost,
                           [command  |-> "saveRoutine",
                            name     |-> panel.routineNameInput,
                            commands |-> ToCommands(panel.selectedCommands),
                            samples  |-> panel.recordedSamples,
                            delay    |-> parseIntOr0(panel.routineDelayInput)])
    /\ panel' = [panel EXCEPT !.view = "main"]
    /\ PanelFrame

routineNameInputChanged(name) ==
    /\ panel.open /\ panel.view = "create" /\ panel.step = 1 /\ ~panel.painting
    /\ panel' = validateStep1([panel EXCEPT !.routineNameInput = name])
    /\ UNCHANGED cfgToHost
    /\ PanelFrame

blockClick ==
    /\ panel.open /\ panel.view = "create" /\ panel.step = 1 /\ ~panel.painting
    /\ Len(panel.selectedCommands) < MaxSelected
    /\ panel' = validateStep1([panel EXCEPT !.selectedCommands = Append(@, SaveBlock)])
    /\ UNCHANGED cfgToHost
    /\ PanelFrame

toggleClick(name) ==
    /\ panel.open /\ panel.view = "main" /\ ~panel.painting
    /\ Has(panel.routines, name)
    /\ InFlight < MaxInFlight
    /\ cfgToHost' = Append(cfgToHost, [command |-> "toggleRoutine", name |-> name])
    /\ UNCHANGED panel
    /\ PanelFrame

deleteClick(name) ==
    /\ panel.open /\ panel.view = "main" /\ ~panel.painting
    /\ Has(panel.routines, name)
    /\ InFlight < MaxInFlight
    /\ cfgToHost' = Append(cfgToHost, [command |-> "deleteRoutine", name |-> name])
    /\ UNCHANGED panel
    /\ PanelFrame

editClick(name) ==
    /\ panel.open /\ panel.view = "main" /\ ~panel.painting
    /\ Has(panel.routines, name)
    /\ panel' = editRoutine(panel, name)
    /\ UNCHANGED cfgToHost
    /\ PanelFrame

\* startPosition(e), with the draw(e) it ends with
startPosition ==
    /\ panel.open /\ panel.view = "create" /\ panel.step = 2 /\ ~panel.painting
    /\ panel.validationRequestId < MaxValidations
    /\ panel' = [panel EXCEPT !.painting = TRUE, !.points = [n |-> 1, shape |-> 0]]
    /\ UNCHANGED cfgToHost
    /\ PanelFrame

configDraw ==
    /\ panel.painting
    /\ panel.points.n < MaxPoints
    /\ panel' = [panel EXCEPT !.points.n = @ + 1]
    /\ UNCHANGED cfgToHost
    /\ PanelFrame

\* finishedPosition(); the shape the stroke has traced is known when it ends.
\* limit bounds the messages that are in flight when the request is posted.
finishedPositionWithin(shape, limit) ==
    /\ panel.painting
    /\ IF panel.points.n > 5
       THEN LET stroke == [panel.points EXCEPT !.shape = shape]
                currentRequestId == panel.validationRequestId + 1
            IN /\ InFlight < limit
               /\ cfgToHost' = Append(cfgToHost,
                                      [command |-> "validateGesture",
                                       points |-> stroke,
                                       requestId |-> currentRequestId,
                                       excludeRoutineName |-> panel.editingRoutineName])
               /\ panel' = [panel EXCEPT !.painting = FALSE,
                                         !.pendingValidation = stroke,
                                         !.validationRequestId = currentRequestId,
                                         !.timers = Append(@, currentRequestId),
                                         !.points = NoStroke]
       ELSE /\ panel' = [panel EXCEPT !.painting = FALSE, !.points = NoStroke]
            /\ UNCHANGED cfgToHost
    /\ PanelFrame

finishedPosition(shape) == finishedPositionWithin(shape, MaxInFlight)

\* the 3000 ms callback armed by finishedPosition for request t; the callbacks
\* have the same delay and so run in the order they were armed
validationTimeoutFires(t) ==
    /\ panel.timers # <<>>
    /\ Head(panel.timers) = t
    /\ panel' = [panel EXCEPT !.timers = Tail(@), !.pendingValidation = NoStroke]
    /\ UNCHANGED cfgToHost
    /\ PanelFrame

\* the message listener of the panel
onConfigMessage ==
    /\ cfgToWebview # <<>>
    /\ LET message == Head(cfgToWebview)
       IN panel' = IF message.command = "routinesUpdated"
                   THEN [panel EXCEPT !.routines = message.routines]
                   ELSE handleGestureValidation(panel, message)
    /\ cfgToWebview' = Tail(cfgToWebview)
    /\ UNCHANGED <<routines, cfgToHost, hostTimers, pure>>
    /\ UNCHANGED canvasVars
    /\ UNCHANGED hostVars
    /\ UNCHANGED managerVars

(***************************************************************************)
(* Host: the store operations as the configuration handlers call them      *)
(***************************************************************************)
RoutineA ==
    [name |-> " A", commands |-> <<HostCmd, DelayCmd, TermCmd>>,
     samples |-> <<[n |-> 6, shape |-> 0]>>, delay |-> 500]

RoutineB ==
    [name |-> "B", commands |-> <<TermCmd, HostCmd>>,
     samples |-> <<[n |-> 6, shape |-> 220]>>, delay |-> 0]

SaveMessages == {RoutineA, RoutineB}

\* sendRoutinesUpdate(): nothing is posted once the panel is gone
sendRoutinesUpdate(rts) ==
    IF panel.open
    THEN Append(cfgToWebview, [command |-> "routinesUpdated", routines |-> getAll(rts)])
    ELSE cfgToWebview

\* The handlers await the store operation they call: its persistence write has
\* completed when they go on.
\*
\* handleSaveRoutine(message).  save_routine ends with DollarRecognizer.clearCache(),
\* a method the recognizer does not have: one version of the store swallows the
\* error, the other lets it reject the save after the routine has been stored, and
\* then the catch block skips sendRoutinesUpdate.  clearCacheRejects tells which.
handleSaveRoutine(message, clearCacheRejects) ==
    /\ routines' = save_routine(routines, message, clock)
    /\ persisted' = IF save_routine_throws(message) THEN persisted ELSE routines'
    /\ cfgToWebview' = IF save_routine_throws(message) \/ clearCacheRejects
                       THEN cfgToWebview
                       ELSE sendRoutinesUpdate(routines')
    /\ UNCHANGED <<toHost, toWebview, handlers, pure, panel, hostTimers>>
    /\ UNCHANGED <<clock, writes, lastCall, held, build, provider>>
    /\ UNCHANGED canvasVars

handleDeleteRoutine(name) ==
    /\ routines' = delete(routines, name)
    /\ persisted' = IF Has(routines, name) THEN routines' ELSE persisted
    /\ cfgToWebview' = IF Has(routines, name)
                       THEN sendRoutinesUpdate(routines')
                       ELSE cfgToWebview
    /\ UNCHANGED <<toHost, toWebview, handlers, pure, panel, hostTimers>>
    /\ UNCHANGED <<clock, writes, lastCall, held, build, provider>>
    /\ UNCHANGED canvasVars

handleToggleRoutine(name) ==
    /\ routines' = toggle(routines, name, clock)
    /\ persisted' = IF Has(routines, name) THEN routines' ELSE persisted
    /\ cfgToWebview' = sendRoutinesUpdate(routines')
    /\ UNCHANGED <<toHost, toWebview, handlers, pure, panel, hostTimers>>
    /\ UNCHANGED <<clock, writes, lastCall, held, build, provider>>
    /\ UNCHANGED canvasVars

\* handleValidateGesture(message): the validation is deferred with setTimeout
handleValidateGesture(message) ==
    /\ hostTimers' = IF panel.open THEN Append(hostTimers, message) ELSE hostTimers
    /\ UNCHANGED <<routines, cfgToWebview, toHost, toWebview, handlers, pure, panel>>
    /\ UNCHANGED canvasVars
    /\ UNCHANGED managerVars

\* the deferred callback of handleValidateGesture.  Where validate does not
\* return the callback never ends, and nothing is posted.
validateGestureCallback ==
    /\ hostTimers # <<>>
    /\ LET message == Head(hostTimers)
           existingGestures == getAllGestures(getAll(routines))
           validation == validate(message.points, existingGestures,
                                  message.excludeRoutineName)
           reply == IF Len(existingGestures) = 0
                    THEN [command |-> "gestureValidation",
                          requestId |-> message.requestId,
                          isValid |-> TRUE, similarTo |-> Undefined, score |-> 1000]
                    ELSE [command |-> "gestureValidation",
                          requestId |-> message.requestId,
                          isValid |-> validation.isValid,
                          similarTo |-> validation.similarTo,
                          score |-> validation.score]
           returns == \/ Len(existingGestures) = 0
                      \/ validateReturns(message.points, existingGestures,
                                         message.excludeRoutineName)
       IN cfgToWebview' = IF panel.open /\ returns
                          THEN Append(cfgToWebview, reply)
                          ELSE cfgToWebview
    /\ hostTimers' = Tail(hostTimers)
    /\ UNCHANGED <<routines, cfgToHost, toHost, toWebview, handlers, pure, panel>>
    /\ UNCHANGED canvasVars
    /\ UNCHANGED managerVars

\* panel.webview.onDidReceiveMessage takes the next message, of the given command
configOnDidReceiveMessage(command) ==
    /\ cfgToHost # <<>>
    /\ Head(cfgToHost).command = command
    /\ cfgToHost' = Tail(cfgToHost)

(***************************************************************************)
(* Spec: one execution-canvas session over a store that holds two routines *)
(***************************************************************************)
PureIdle ==
    [phase |-> "idle", cand |-> NoStroke, excl |-> Undefined, dollar |-> <<>>,
     validation |-> <<>>, recognition |-> <<>>]

InitCanvas ==
    /\ isDrawing = FALSE
    /\ points = NoStroke
    /\ isProcessing = FALSE
    /\ processingTimeout = 0
    /\ gestureCount = 0
    /\ recognizedCount = 0
    /\ feedback = ""
    /\ timers = {}

InitHost ==
    /\ toHost = <<>>
    /\ toWebview = <<>>
    /\ handlers = [h \in 1..MaxGestures |-> IdleHandler]

\* the copy of RoutineManager with input validation (src/unnamed/part_005) and
\* the copy without (src/src/routineManager.ts)
Validating == "part_005"

Unvalidated == "routineManager.ts"

NoCall == [op |-> "none"]

\* this.panel is the first panel that show() has created; panel 0 stands for
\* undefined
FirstPanel == [panel |-> 1, created |-> 1, earlier |-> 0]

NoView == [op |-> "none"]

\* the store as the constructor loads it, with no call made yet
InitManager ==
    /\ clock = 1
    /\ persisted = routines
    /\ writes = <<>>
    /\ lastCall = NoCall
    /\ held = NoView
    /\ build = Validating
    /\ provider = FirstPanel

\* no configuration panel has been opened
InitNoPanel ==
    /\ panel = [ClosedPanel EXCEPT !.routines = routines]
    /\ cfgToHost = <<>>
    /\ cfgToWebview = <<>>
    /\ hostTimers = <<>>

Init ==
    /\ routines = save_routine(save_routine(<<>>, RoutineA, 1), RoutineB, 1)
    /\ InitCanvas
    /\ InitHost
    /\ InitNoPanel
    /\ InitManager
    /\ pure = PureIdle

Next ==
    \/ startDrawing
    \/ draw
    \/ \E shape \in CanvasShapes : stopDrawing(shape)
    \/ \E t \in 1..MaxGestures : processingTimeoutFires(t)
    \/ onRecognitionResult
    \/ onDidReceiveMessage
    \/ \E h \in 1..MaxGestures : recognizeAndExecute(h)
    \/ \E h \in 1..MaxGestures : focusRestored(h)
    \/ \E h \in 1..MaxGestures : waitElapsed(h)
    \/ \E h \in 1..MaxGestures : stepSettles(h)

Spec == Init /\ [][Next]_vars

\* The canvas session in which every timer that has been set and not cleared
\* fires in the end.  Nothing is assumed of the host: it may never answer.
SpecTimersFire ==
    /\ Spec
    /\ \A t \in 1..MaxGestures : WF_vars(processingTimeoutFires(t))

(***************************************************************************)
(* SpecStore: recognizeAndExecute called while the store is being edited   *)
(***************************************************************************)
CallStrokes == [n : {4, 5}, shape : CanvasShapes]

callRecognizeAndExecute(h, stroke) ==
    /\ handlers[h].pc = "idle"
    /\ handlers' = [handlers EXCEPT ![h] =
                       [IdleHandler EXCEPT !.pc = "immediate", !.points = stroke,
                                           !.caller = "engine"]]
    /\ UNCHANGED <<routines, toHost, toWebview, pure>>
    /\ UNCHANGED canvasVars
    /\ UNCHANGED configVars
    /\ UNCHANGED managerVars

InitStore ==
    /\ routines = <<>>
    /\ InitCanvas
    /\ InitHost
    /\ InitNoPanel
    /\ InitManager
    /\ pure = PureIdle

NextStore ==
    \/ \E h \in 1..MaxGestures, stroke \in CallStrokes : callRecognizeAndExecute(h, stroke)
    \/ \E h \in 1..MaxGestures : recognizeAndExecute(h)
    \/ \E h \in 1..MaxGestures : focusRestored(h)
    \/ \E h \in 1..MaxGestures : waitElapsed(h)
    \/ \E h \in 1..MaxGestures : stepSettles(h)
    \/ \E message \in SaveMessages, clearCacheRejects \in BOOLEAN :
          handleSaveRoutine(message, clearCacheRejects) /\ UNCHANGED cfgToHost
    \/ \E name \in Names : handleDeleteRoutine(name) /\ UNCHANGED cfgToHost
    \/ \E name \in Names : handleToggleRoutine(name) /\ UNCHANGED cfgToHost

SpecStore == InitStore /\ [][NextStore]_vars

(***************************************************************************)
(* SpecExec: executeRoutine called on every routine of the catalogue, with *)
(* every pattern of throwing collaborators                                 *)
(***************************************************************************)
ExecRoutines ==
    [name : {"A"},
     commands : SeqsUpTo(Cmds, MaxCmds) \ {<<>>},
     samples : {<<[n |-> 6, shape |-> 0]>>},
     enabled : {TRUE},
     delay : Delays,
     createdAt : {1},
     updatedAt : {1}]

callExecuteRoutine(routine, throws, hasEditor) ==
    /\ handlers[1].pc = "idle"
    /\ Settle(1, executeRoutine(IdleHandler, routine, throws, hasEditor))
    /\ UNCHANGED <<routines, toHost, pure>>
    /\ UNCHANGED canvasVars
    /\ UNCHANGED configVars
    /\ UNCHANGED managerVars

NextExec ==
    \/ \E routine \in ExecRoutines, hasEditor \in BOOLEAN :
          \E throws \in ThrowPatterns(routine.commands) :
             callExecuteRoutine(routine, throws, hasEditor)
    \/ focusRestored(1)
    \/ waitElapsed(1)
    \/ stepSettles(1)

SpecExec == Init /\ [][NextExec]_vars

(***************************************************************************)
(* SpecDispatch: executeRoutine on routines whose steps are of every kind  *)
(* the switch tells apart, commands stored as plain strings and steps of   *)
(* a type it does not know included                                        *)
(***************************************************************************)
MaxSteps == 2

\* a command of a routine saved by an earlier version: a plain string
LegacyCmd == [string |-> "editor.action.formatDocument"]

UnknownCmd == [type |-> "macro", command |-> "workbench.action.closeActiveEditor"]

DispatchCmds == Cmds \cup {LegacyCmd, UnknownCmd}

DispatchRoutines ==
    [name : {"A"},
     commands : SeqsUpTo(DispatchCmds, MaxSteps) \ {<<>>},
     samples : {<<[n |-> 6, shape |-> 0]>>},
     enabled : {TRUE},
     delay : Delays,
     createdAt : {1},
     updatedAt : {1}]

\* throws[k]: executeCommand and the terminal throw when step k calls them
CollaboratorThrows(commands) == [1..Len(commands) -> BOOLEAN]

NextDispatch ==
    \/ \E routine \in DispatchRoutines, hasEditor \in BOOLEAN :
          \E throws \in CollaboratorThrows(routine.commands) :
             callExecuteRoutine(routine, throws, hasEditor)
    \/ focusRestored(1)
    \/ waitElapsed(1)
    \/ stepSettles(1)

SpecDispatch == Init /\ [][NextDispatch]_vars

(***************************************************************************)
(* SpecPure: the recognizer, the validator and the engine's decision on    *)
(* every candidate against every store of the catalogue                    *)
(***************************************************************************)
StoredRoutines ==
    [name : Names,
     commands : {<<HostCmd>>},
     samples : SeqsUpTo(SampleStrokes, MaxSamples) \ {<<>>},
     enabled : BOOLEAN,
     delay : {0},
     createdAt : {1},
     updatedAt : {1}]

StoreCatalog ==
    {<<>>} \cup {<<r>> : r \in StoredRoutines}
           \cup {<<p[1], p[2]>> :
                    p \in {q \in StoredRoutines \X StoredRoutines : q[1].name # q[2].name}}

InitPure ==
    /\ routines \in StoreCatalog
    /\ InitCanvas
    /\ InitHost
    /\ InitNoPanel
    /\ InitManager
    /\ pure \in [phase : {"input"}, cand : Strokes, excl : Names \cup {Undefined},
                 dollar : {<<>>}, validation : {<<>>}, recognition : {<<>>}]

applyPure ==
    /\ pure.phase = "input"
    /\ pure' = [pure EXCEPT
          !.phase = "done",
          !.dollar = <<DollarRecognizer_recognize(pure.cand, getAllGestures(routines))>>,
          !.validation = <<validate(pure.cand, getAllGestures(routines), pure.excl)>>,
          !.recognition = <<Engine_recognize(pure.cand, routines)>>]
    /\ UNCHANGED <<routines, toHost, toWebview, handlers>>
    /\ UNCHANGED canvasVars
    /\ UNCHANGED configVars
    /\ UNCHANGED managerVars

NextPure == applyPure

SpecPure == InitPure /\ [][NextPure]_vars

(***************************************************************************)
(* SpecStrokes: the validator and the recognizer on flat lines, on strokes *)
(* whose first segment is long, and on scaled copies of a stroke           *)
(***************************************************************************)
StrokeShapes == {0, 200, FlatLine}

StrokeCatalog ==
    [n : PointCounts, shape : StrokeShapes]
        \cup [n : PointCounts, shape : StrokeShapes, ties : TieOutcomes]

\* the scale factors: a product by 2 is exact, a product by 5 is rounded
Factors == {2, 5}

ExactFactors == {2}

\* the strokes that S with every coordinate multiplied by k can be: the
\* points, the shape and the ratio of the first segment to I are those of S;
\* where S has ties, the rounded products decide them afresh
ScaledCopies(S, k) ==
    IF HasTies(S) /\ k \notin ExactFactors
    THEN {[S EXCEPT !.ties = t] : t \in TieOutcomes}
    ELSE {S}

StrokeRoutines ==
    [name : {"A"},
     commands : {<<HostCmd>>},
     samples : {<<s>> : s \in {x \in StrokeCatalog : x.n > CANVAS_MIN_POINTS}},
     enabled : {TRUE},
     delay : {0},
     createdAt : {1},
     updatedAt : {1}]

InitStrokes ==
    /\ routines \in {<<r>> : r \in StrokeRoutines}
    /\ InitCanvas
    /\ InitHost
    /\ InitNoPanel
    /\ InitManager
    /\ pure \in [phase : {"input"}, cand : StrokeCatalog, excl : {Undefined, "A"},
                 k : Factors, validation : {<<>>}, recognition : {<<>>},
                 own : {<<>>}, scaled : {<<>>}]

StrokesFrame ==
    /\ UNCHANGED <<routines, toHost, toWebview, handlers>>
    /\ UNCHANGED canvasVars
    /\ UNCHANGED configVars
    /\ UNCHANGED managerVars

\* GestureValidator.validate on the candidate; a call that does not return
\* stays in "validating"
validateCandidate ==
    /\ pure.phase = "input"
    /\ pure' = IF validateReturns(pure.cand, getAllGestures(routines), pure.excl)
               THEN [pure EXCEPT
                        !.phase = "validated",
                        !.validation =
                            <<validate(pure.cand, getAllGestures(routines), pure.excl)>>]
               ELSE [pure EXCEPT !.phase = "validating"]
    /\ StrokesFrame

\* GestureRecognitionEngine.recognize on the candidate; a call that does not
\* return stays in "deciding"
recognizeCandidate ==
    /\ pure.phase = "input"
    /\ pure' = IF \/ pure.cand.n < MIN_POINTS
                  \/ Len(EngineTemplates(routines)) = 0
                  \/ recognizeReturns(pure.cand, EngineTemplates(routines))
               THEN [pure EXCEPT
                        !.phase = "done",
                        !.recognition = <<Engine_recognize(pure.cand, routines)>>]
               ELSE [pure EXCEPT !.phase = "deciding"]
    /\ StrokesFrame

\* recognize(S, [S]) and recognize(kS, [S]); a call that does not return
\* stays in "recognizing"
recognizeScaled ==
    /\ pure.phase = "input"
    /\ \E kS \in ScaledCopies(pure.cand, pure.k) :
          LET templates == <<[name |-> "A", points |-> <<pure.cand>>]>>
          IN pure' = IF /\ recognizeReturns(pure.cand, templates)
                        /\ recognizeReturns(kS, templates)
                     THEN [pure EXCEPT
                              !.phase = "recognized",
                              !.own = <<DollarRecognizer_recognize(pure.cand, templates)>>,
                              !.scaled = <<DollarRecognizer_recognize(kS, templates)>>]
                     ELSE [pure EXCEPT !.phase = "recognizing"]
    /\ StrokesFrame

NextStrokes ==
    \/ validateCandidate
    \/ recognizeCandidate
    \/ recognizeScaled

SpecStrokes == InitStrokes /\ [][NextStrokes]_vars

(***************************************************************************)
(* SpecConfig: the configuration panel open on a store that holds one      *)
(* routine created in an earlier session                                   *)
(***************************************************************************)
ConfigRoutineA ==
    [name |-> "A", commands |-> ToCommands(<<SaveBlock>>),
     samples |-> <<[n |-> 6, shape |-> 0], [n |-> 6, shape |-> 0], [n |-> 6, shape |-> 0]>>,
     delay |-> 0]

InitConfig ==
    /\ routines = save_routine(<<>>, ConfigRoutineA, 1)
    /\ InitCanvas
    /\ InitHost
    /\ panel = [ClosedPanel EXCEPT !.open = TRUE, !.routines = routines]
    /\ cfgToHost = <<>>
    /\ cfgToWebview = <<>>
    /\ hostTimers = <<>>
    /\ InitManager
    /\ pure = PureIdle

NextConfig ==
    \/ btnNewRoutineClick
    \/ btnCancelCreateClick
    \/ btnBackStepClick
    \/ btnNextStepClick
    \/ btnSaveRoutineClick
    \/ \E name \in InputNames : routineNameInputChanged(name)
    \/ blockClick
    \/ \E name \in Names : toggleClick(name)
    \/ \E name \in Names : deleteClick(name)
    \/ \E name \in Names : editClick(name)
    \/ startPosition
    \/ configDraw
    \/ \E shape \in ConfigShapes : finishedPosition(shape)
    \/ \E t \in 1..MaxValidations : validationTimeoutFires(t)
    \/ onConfigMessage
    \/ \E clearCacheRejects \in BOOLEAN :
          /\ configOnDidReceiveMessage("saveRoutine")
          /\ handleSaveRoutine(Head(cfgToHost), clearCacheRejects)
    \/ /\ configOnDidReceiveMessage("deleteRoutine")
       /\ handleDeleteRoutine(Head(cfgToHost).name)
    \/ /\ configOnDidReceiveMessage("toggleRoutine")
       /\ handleToggleRoutine(Head(cfgToHost).name)
    \/ /\ configOnDidReceiveMessage("validateGesture")
       /\ handleValidateGesture(Head(cfgToHost))
    \/ validateGestureCallback

SpecConfig == InitConfig /\ [][NextConfig]_vars

(***************************************************************************)
(* SpecEngine: one call of recognizeAndExecute, kept with what it returns,  *)
(* while the store is being edited                                         *)
(***************************************************************************)
callEngine(stroke) ==
    /\ handlers[1].pc = "idle"
    /\ handlers' = [handlers EXCEPT ![1] =
                       [IdleHandler EXCEPT !.pc = "immediate", !.points = stroke]]
    /\ UNCHANGED <<routines, toHost, toWebview, pure>>
    /\ UNCHANGED canvasVars
    /\ UNCHANGED configVars
    /\ UNCHANGED managerVars

NextEngine ==
    \/ \E stroke \in CallStrokes : callEngine(stroke)
    \/ recognizeAndExecute(1)
    \/ focusRestored(1)
    \/ waitElapsed(1)
    \/ stepSettles(1)
    \/ \E message \in SaveMessages, clearCacheRejects \in BOOLEAN :
          handleSaveRoutine(message, clearCacheRejects) /\ UNCHANGED cfgToHost
    \/ \E name \in Names : handleDeleteRoutine(name) /\ UNCHANGED cfgToHost
    \/ \E name \in Names : handleToggleRoutine(name) /\ UNCHANGED cfgToHost

SpecEngine == Init /\ [][NextEngine]_vars

(***************************************************************************)
(* SpecManager: the methods of RoutineManager called in any order on an    *)
(* empty store, by either copy of the class, every globalState.update      *)
(* completing some time after the call that issued it, in the order issued *)
(***************************************************************************)
MaxClock == 2

MaxWrites == 2

MaxRoutines == 2

\* the names save_routine is called with, and the names delete and toggle are
\* called with
ManagerNames == {" A", "B", " "}

ManagerKeys == {"A", " A", "B", " "}

\* the routines save_routine is called with: two that are complete, and one
\* for each way of being incomplete; none carries an enabled flag
ManagerSample == <<[n |-> 6, shape |-> 0]>>

ManagerRoutines ==
    {[name |-> " A", commands |-> <<HostCmd>>, samples |-> ManagerSample, delay |-> 0],
     [name |-> "B",  commands |-> <<TermCmd>>, samples |-> ManagerSample, delay |-> 0],
     [name |-> " ",  commands |-> <<HostCmd>>, samples |-> ManagerSample, delay |-> 0],
     [name |-> " A", commands |-> <<>>,        samples |-> ManagerSample, delay |-> 0],
     [name |-> "B",  commands |-> <<TermCmd>>, samples |-> <<>>,          delay |-> 0]}

\* what the validation of save_routine is to refuse: a name that is empty or
\* only whitespace, no command, or no sample
Incomplete(routine) ==
    \/ Len(Trim(routine.name)) = 0
    \/ Len(routine.commands) = 0
    \/ Len(routine.samples) = 0

\* save_routine of the running copy: whether it throws, the key it stores
\* under, the map it leaves
throwsIn(b, routine) == b = Validating /\ save_routine_throws(routine)

keyIn(b, routine) == IF b = Validating THEN Trim(routine.name) ELSE routine.name

save_routineIn(b, rts, routine, now) ==
    IF b = Validating THEN save_routine(rts, routine, now)
    ELSE save_routine_unvalidated(rts, routine, now)

Returned(op, value) == [op |-> op, returned |-> value]

\* A map a caller holds has its own keys and shares its record objects with
\* the store (live: the keys whose record is still the store's object).
\* save_routine and delete take the store's object of a key away
heldAfterReplace(h, key) ==
    IF h.op = "none" THEN h ELSE [h EXCEPT !.live = @ \ {key}]

\* toggle writes into the store's object
heldAfterToggle(h, name, now) ==
    IF h.op = "none" \/ name \notin h.live THEN h
    ELSE [h EXCEPT !.map = toggle(@, name, now)]

ManagerFrame ==
    /\ UNCHANGED <<build, provider, pure>>
    /\ UNCHANGED canvasVars
    /\ UNCHANGED hostVars
    /\ UNCHANGED configVars

\* Date.now() moves on between two calls
tick ==
    /\ clock < MaxClock
    /\ clock' = clock + 1
    /\ UNCHANGED <<routines, persisted, writes, lastCall, held>>
    /\ ManagerFrame

\* save_routine(routine) up to its await of save(): the validation, the
\* assignment of the record and the call of globalState.update
callSaveRoutine(routine) ==
    /\ IF throwsIn(build, routine)
       THEN /\ lastCall' = Returned("save_routine", "threw")
            /\ UNCHANGED <<routines, persisted, writes, held>>
       ELSE /\ Len(writes) < MaxWrites
            /\ Len(save_routineIn(build, routines, routine, clock)) <= MaxRoutines
            /\ routines' = save_routineIn(build, routines, routine, clock)
            /\ writes' = Append(writes, routines')
            /\ held' = heldAfterReplace(held, keyIn(build, routine))
            /\ lastCall' = Returned("save_routine", "void")
            /\ UNCHANGED persisted
    /\ UNCHANGED clock
    /\ ManagerFrame

\* delete calling save() before it deletes the key
callDelete_writesFirst(name) ==
    /\ IF ~Has(routines, name)
       THEN /\ lastCall' = Returned("delete", "false")
            /\ UNCHANGED <<routines, persisted, writes, held>>
       ELSE /\ Len(writes) < MaxWrites
            /\ routines' = delete(routines, name)
            /\ writes' = Append(writes, routines)
            /\ held' = heldAfterReplace(held, name)
            /\ lastCall' = Returned("delete", "true")
            /\ UNCHANGED persisted
    /\ UNCHANGED clock
    /\ ManagerFrame

\* delete(name) up to its await of save()
callDelete(name) ==
    /\ IF ~Has(routines, name)
       THEN /\ lastCall' = Returned("delete", "false")
            /\ UNCHANGED <<routines, persisted, writes, held>>
       ELSE /\ Len(writes) < MaxWrites
            /\ routines' = delete(routines, name)
            /\ writes' = Append(writes, routines')
            /\ held' = heldAfterReplace(held, name)
            /\ lastCall' = Returned("delete", "true")
            /\ UNCHANGED persisted
    /\ UNCHANGED clock
    /\ ManagerFrame

\* toggle(name) up to its await of save()
callToggle(name) ==
    /\ IF ~Has(routines, name)
       THEN /\ lastCall' = Returned("toggle", "false")
            /\ UNCHANGED <<routines, persisted, writes, held>>
       ELSE /\ Len(writes) < MaxWrites
            /\ routines' = toggle(routines, name, clock)
            /\ writes' = Append(writes, routines')
            /\ held' = heldAfterToggle(held, name, clock)
            /\ lastCall' = Returned("toggle", "true")
            /\ UNCHANGED persisted
    /\ UNCHANGED clock
    /\ ManagerFrame

\* the oldest globalState.update completes: save() goes on after its await
writeCompletes ==
    /\ writes # <<>>
    /\ persisted' = Head(writes)
    /\ writes' = Tail(writes)
    /\ UNCHANGED <<routines, clock, lastCall, held>>
    /\ ManagerFrame

InitManagerStore ==
    /\ routines = <<>>
    /\ InitCanvas
    /\ InitHost
    /\ InitNoPanel
    /\ clock = 1
    /\ persisted = routines
    /\ writes = <<>>
    /\ lastCall = NoCall
    /\ held = NoView
    /\ build \in {Validating, Unvalidated}
    /\ provider = FirstPanel
    /\ pure = PureIdle

NextManager ==
    \/ tick
    \/ \E routine \in ManagerRoutines : callSaveRoutine(routine)
    \/ \E name \in ManagerKeys : callDelete(name)
    \/ \E name \in ManagerKeys : callToggle(name)
    \/ writeCompletes

SpecManager == InitManagerStore /\ [][NextManager]_vars

(***************************************************************************)
(* SpecLegacy: the routine store of extension.ts, which keeps the routines *)
(* in routineStore and handles the panel's messages itself                 *)
(***************************************************************************)
\* case 'saveRoutine': the record has neither an enabled flag nor timestamps
legacySaveRoutine(rts, message) ==
    Put(rts, [name     |-> message.name,
              commands |-> message.commands,
              samples  |-> message.samples,
              delay    |-> message.delay])

\* !r.enabled of a record whose flag may be unset: !undefined is true
NotEnabled(r) == IF "enabled" \in DOMAIN r THEN ~r.enabled ELSE TRUE

\* case 'toggleRoutine': enabled = !enabled, which is never undefined, so the
\* assignment of false that follows never runs
legacyToggleRoutine(rts, name) ==
    IF ~Has(rts, name) THEN rts
    ELSE [rts EXCEPT ![IndexOf(rts, name)] =
             [f \in DOMAIN @ \cup {"enabled"} |->
                 IF f = "enabled" THEN NotEnabled(@) ELSE @[f]]]

\* the literals of extension.ts: result.score > 0.75 in case 'validateGesture',
\* result.score > 0.80 where the drawn gesture is recognized
LEGACY_SIMILARITY_THRESHOLD == 750

LEGACY_RECOGNITION_THRESHOLD == 800

\* case 'validateGesture': every stored routine is a template, no name is
\* excluded and the number of points is not looked at
legacyValidateGesture(messagePoints, rts) ==
    LET templates == [i \in 1..Len(rts) |->
                         [name |-> rts[i].name, points |-> rts[i].samples]]
    IN IF Len(templates) > 0
       THEN LET result == DollarRecognizer_recognize(messagePoints, templates)
                isTooSimilar == result.score > LEGACY_SIMILARITY_THRESHOLD
            IN [isTooSimilar |-> isTooSimilar,
                similarTo |-> IF isTooSimilar THEN result.name ELSE Undefined,
                score |-> result.score]
       ELSE [isTooSimilar |-> FALSE, similarTo |-> Undefined, score |-> 0]

\* the recognition of extension.ts: the routines whose enabled is not false
\* are the templates, and a score over 0.80 runs the routine named
legacyRecognizes(candidatePoints, rts) ==
    LET on == SelectSeq(rts, LAMBDA r : ~("enabled" \in DOMAIN r /\ r.enabled = FALSE))
        templates == [i \in 1..Len(on) |->
                         [name |-> on[i].name, points |-> on[i].samples]]
    IN /\ Len(templates) > 0
       /\ DollarRecognizer_recognize(candidatePoints, templates).score
              > LEGACY_RECOGNITION_THRESHOLD

\* the handlers call globalState.update without awaiting it and post
\* routinesUpdated to the panel
saveRoutineMessage(message) ==
    /\ Len(writes) < MaxWrites
    /\ routines' = legacySaveRoutine(routines, message)
    /\ writes' = Append(writes, routines')
    /\ lastCall' = Returned("saveRoutine", "routinesUpdated")
    /\ UNCHANGED <<clock, persisted, held>>
    /\ ManagerFrame

deleteRoutineMessage(name) ==
    /\ Len(writes) < MaxWrites
    /\ routines' = Remove(routines, name)
    /\ writes' = Append(writes, routines')
    /\ lastCall' = Returned("deleteRoutine", "routinesUpdated")
    /\ UNCHANGED <<clock, persisted, held>>
    /\ ManagerFrame

toggleRoutineMessage(name) ==
    /\ IF ~Has(routines, name)
       THEN /\ lastCall' = Returned("toggleRoutine", "none")
            /\ UNCHANGED <<routines, writes>>
       ELSE /\ Len(writes) < MaxWrites
            /\ routines' = legacyToggleRoutine(routines, name)
            /\ writes' = Append(writes, routines')
            /\ lastCall' = Returned("toggleRoutine", "routinesUpdated")
    /\ UNCHANGED <<clock, persisted, held>>
    /\ ManagerFrame

NextLegacy ==
    \/ \E message \in SaveMessages : saveRoutineMessage(message)
    \/ \E name \in ManagerKeys : deleteRoutineMessage(name)
    \/ \E name \in ManagerKeys : toggleRoutineMessage(name)
    \/ writeCompletes

SpecLegacy == InitStore /\ [][NextLegacy]_vars

(***************************************************************************)
(* SpecViews: a caller holds a map that getAll() or getEnabled() returned  *)
(* while the store goes on being changed, and writes into that map         *)
(***************************************************************************)
\* the routines the store is filled with
ViewRoutines == {r \in ManagerRoutines : ~Incomplete(r)}

\* { ...this.routines }, or the object getEnabled() builds: a new object whose
\* values are the store's own record objects
View(op, rts) ==
    [op |-> op, returned |-> rts, map |-> rts, live |-> Keys(rts)]

callGetAll ==
    /\ held' = View("getAll", getAll(routines))
    /\ UNCHANGED <<routines, clock, persisted, writes, lastCall>>
    /\ ManagerFrame

callGetEnabled ==
    /\ held' = View("getEnabled", getEnabled(routines))
    /\ UNCHANGED <<routines, clock, persisted, writes, lastCall>>
    /\ ManagerFrame

\* the caller deletes a key of the map it holds
callerDeletes(name) ==
    /\ held.op # "none"
    /\ Has(held.map, name)
    /\ held' = [held EXCEPT !.map = Remove(@, name), !.live = @ \ {name}]
    /\ UNCHANGED <<routines, clock, persisted, writes, lastCall>>
    /\ ManagerFrame

\* the caller sets map[name].enabled = false: the record is the store's while
\* the store has not replaced or deleted it
callerDisables(name) ==
    /\ held.op # "none"
    /\ Has(held.map, name)
    /\ held' = [held EXCEPT !.map = [@ EXCEPT ![IndexOf(@, name)].enabled = FALSE]]
    /\ routines' = IF name \in held.live
                   THEN [routines EXCEPT ![IndexOf(routines, name)].enabled = FALSE]
                   ELSE routines
    /\ UNCHANGED <<clock, persisted, writes, lastCall>>
    /\ ManagerFrame

NextViews ==
    \/ \E routine \in ViewRoutines : callSaveRoutine(routine)
    \/ \E name \in ManagerKeys : callDelete(name)
    \/ \E name \in ManagerKeys : callToggle(name)
    \/ writeCompletes
    \/ callGetAll
    \/ callGetEnabled
    \/ \E name \in ManagerKeys : callerDeletes(name)
    \/ \E name \in ManagerKeys : callerDisables(name)

SpecViews == InitStore /\ [][NextViews]_vars

(***************************************************************************)
(* SpecReaders: recognitions and executions run while the store is edited  *)
(* and time passes                                                         *)
(***************************************************************************)
NextReaders ==
    \/ \E stroke \in CallStrokes : callEngine(stroke)
    \/ recognizeAndExecute(1)
    \/ focusRestored(1)
    \/ waitElapsed(1)
    \/ stepSettles(1)
    \/ \E message \in SaveMessages, clearCacheRejects \in BOOLEAN :
          handleSaveRoutine(message, clearCacheRejects) /\ UNCHANGED cfgToHost
    \/ \E name \in Names : handleDeleteRoutine(name) /\ UNCHANGED cfgToHost
    \/ \E name \in Names : handleToggleRoutine(name) /\ UNCHANGED cfgToHost
    \/ tick

SpecReaders == Init /\ [][NextReaders]_vars

(***************************************************************************)
(* Properties                                                              *)
(***************************************************************************)
ExecPcs == {"focus", "wait", "run"}

Throwing(e, upTo) == {k \in 1..upTo : e.throws[k]}

\* C1: executeRoutine dispatches every step exactly once whatever steps
\* fail, ends by returning, and returns failed = the number of steps whose
\* collaborator threw and success + failed = the number of steps.  Stated
\* all along the call: the steps before the current one have been dispatched
\* once and are all counted, the later ones not yet.
C1_EveryStepAttemptedOnce ==
    \A h \in 1..MaxGestures :
        LET e == handlers[h]
            N == Len(e.routine.commands)
        IN (e.caller = "direct" /\ e.pc \in ExecPcs \cup {"done"}) =>
              /\ e.i \in 1..(N + 1)
              /\ \A k \in 1..N :
                    e.attempts[k] = IF k < e.i \/ (k = e.i /\ e.pc = "run") THEN 1 ELSE 0
              /\ e.failCount = Cardinality(Throwing(e, e.i - 1))
              /\ e.successCount + e.failCount = e.i - 1
              /\ (e.pc = "done") = (e.i = N + 1)

\* a call of three steps that has returned {success: 1, failed: 2}
C1_Witness ==
    /\ handlers[1].pc = "done"
    /\ Len(handlers[1].routine.commands) = 3
    /\ handlers[1].successCount = 1
    /\ handlers[1].failCount = 2

WaitRequired(e, k) ==
    k > 1 /\ e.delay > 0 /\ e.routine.commands[k].type # "delay"

Before(order, event, p) == \E q \in 1..(p - 1) : order[q] = event

\* C2: within one call the steps begin in index order, and neither the wait
\* before a step nor the step itself begins before the previous step has
\* ended; a step that needs the inter-command wait begins only after that
\* wait has elapsed.
C2_StrictlySequential ==
    \A h \in 1..MaxGestures :
        LET e == handlers[h]
        IN (e.caller = "direct" /\ e.pc \in ExecPcs \cup {"done"}) =>
              \A p \in 1..Len(e.order) :
                 LET kind == e.order[p][1]
                     k == e.order[p][2]
                 IN /\ (kind \in {"wait", "begin"} /\ k > 1) =>
                          Before(e.order, <<"end", k - 1>>, p)
                    /\ (kind = "begin" /\ WaitRequired(e, k)) =>
                          Before(e.order, <<"waited", k>>, p)
                    /\ (kind = "begin") =>
                          \A q \in 1..(p - 1) :
                             e.order[q][1] = "begin" => e.order[q][2] < k

\* a call with an inter-command delay whose third step has begun
C2_Witness ==
    /\ handlers[1].caller = "direct"
    /\ handlers[1].delay > 0
    /\ \E p \in 1..Len(handlers[1].order) : handlers[1].order[p] = <<"waited", 3>>
    /\ \E p \in 1..Len(handlers[1].order) : handlers[1].order[p] = <<"begin", 3>>

Running(h) == handlers[h].pc = "run"

\* C3: no two commands of the same routine are ever running at once.
C3_NoConcurrentCommandsOfOneRoutine ==
    \A h1, h2 \in 1..MaxGestures :
        (h1 # h2 /\ Running(h1) /\ Running(h2)) =>
            handlers[h1].routine.name # handlers[h2].routine.name

InToHost(req) == \E k \in 1..Len(toHost) : toHost[k].req = req

InToWebview(req) == \E k \in 1..Len(toWebview) : toWebview[k].req = req

\* sent to the host and not yet answered to the canvas
Outstanding(req) ==
    \/ InToHost(req)
    \/ handlers[req].pc # "idle"
    \/ InToWebview(req)

\* C4: at most one recognizeGesture request of the session is outstanding.
C4_AtMostOneOutstanding ==
    Cardinality({req \in 1..MaxGestures : Outstanding(req)}) <= 1

(***************************************************************************)
(* The scores as the claims state them, computed over sets                 *)
(***************************************************************************)
Score(candidate, sample) == 1000 - Abs(candidate.shape - sample.shape)

\* the scores of the candidate against the samples of the routines in rs
ScoresAgainst(candidate, rs) ==
    UNION {{Score(candidate, r.samples[j]) : j \in 1..Len(r.samples)} : r \in rs}

SetMax(S) == CHOOSE x \in S : \A y \in S : y <= x

BestScore(candidate, rs) ==
    IF ScoresAgainst(candidate, rs) = {} THEN 1000 - Infinity
    ELSE SetMax(ScoresAgainst(candidate, rs))

Stored(rts) == {rts[i] : i \in 1..Len(rts)}

EnabledStored(rts) == {r \in Stored(rts) : r.enabled}

Compared(rts, exclude) == {r \in Stored(rts) : r.name # exclude}

PureDone == pure.phase = "done"

C6_OnlyEnabledRoutinesFire ==
    [][\A h \in 1..MaxGestures :
          (handlers[h].pc = "immediate" /\ handlers'[h] # handlers[h]) =>
             LET result == Engine_recognize(handlers[h].points, routines)
                 started == handlers'[h].routine
             IN /\ result.recognized =>
                      \E r \in Stored(routines) :
                         r.name = result.routineName /\ r.enabled /\ result.routine = r
                /\ handlers'[h].pc \in ExecPcs =>
                      \E r \in Stored(routines) : r.enabled /\ started = r
      ]_vars

\* routine A runs on a score of exactly 0.80 while B, whose sample is closer
\* to the stroke, is stored but disabled
C6_Witness ==
    \E h \in 1..MaxGestures :
        /\ handlers[h].pc = "run"
        /\ handlers[h].caller = "engine"
        /\ handlers[h].routine.name = "A"
        /\ handlers[h].result.score = 800
        /\ \E r \in Stored(routines) : r.name = "B" /\ ~r.enabled

C8_NoTwoStoredRoutinesConfusable ==
    \A r1, r2 \in Stored(routines) :
        r1.name # r2.name =>
            \A j \in 1..Len(r1.samples) : BestScore(r1.samples[j], {r2}) <= 780

\* C9: a candidate that validate accepts against all stored gestures is not
\* recognized against the enabled routines of the same store.
C9_AcceptedIsNotRecognized ==
    (PureDone /\ pure.excl = Undefined /\ pure.validation[1].isValid) =>
        ~pure.recognition[1].recognized

\* accepted at 0.78 with nothing excluded, and scored 0.78 by the engine
C9_Witness ==
    /\ PureDone
    /\ pure.excl = Undefined
    /\ pure.validation[1].isValid
    /\ pure.validation[1].score = 780
    /\ pure.recognition[1].score = 780
    /\ ~pure.recognition[1].recognized

\* C10: a stroke of fewer than 5 points gets {name: "", score: 0} from the
\* recognizer, not valid with score 0 from the validator and not recognized
\* with score 0 and no routine from the engine, nothing having been
\* normalized or compared.
C10_TooFewPoints ==
    (PureDone /\ pure.cand.n < 5) =>
        /\ pure.dollar[1] = [name |-> "", score |-> 0, normalized |-> 0, compared |-> 0]
        /\ ~pure.validation[1].isValid
        /\ pure.validation[1].score = 0
        /\ pure.validation[1].normalized = 0
        /\ ~pure.recognition[1].recognized
        /\ pure.recognition[1].score = 0
        /\ pure.recognition[1].routine = NoRoutine
        /\ pure.recognition[1].normalized = 0

\* a stroke of 4 points tried against a store of two routines
C10_Witness ==
    /\ PureDone
    /\ pure.cand.n = 4
    /\ Len(routines) = 2

IsDirectCall(e) == e.caller = "direct" /\ e.pc \in ExecPcs \cup {"done"}

WaitsIn(order) == {p \in 1..Len(order) : order[p][1] = "wait"}

\* C11: the inter-command wait occurs immediately before step k exactly when
\* k is not the first step, the routine's delay is positive and step k is not
\* a delay step; no other wait occurs, so a call with delay 0 waits never and
\* a finished call has waited once for each such step.
C11_WaitExactlyBeforeLaterNonDelaySteps ==
    \A h \in 1..MaxGestures :
        LET e == handlers[h]
            N == Len(e.routine.commands)
        IN IsDirectCall(e) =>
              /\ \A p \in 1..Len(e.order) :
                    LET k == e.order[p][2]
                    IN /\ e.order[p][1] = "begin" =>
                             IF WaitRequired(e, k)
                             THEN /\ p > 2
                                  /\ e.order[p - 1] = <<"waited", k>>
                                  /\ e.order[p - 2] = <<"wait", k>>
                             ELSE p > 1 => e.order[p - 1][1] = "end"
                       /\ e.order[p][1] = "wait" =>
                             /\ WaitRequired(e, k)
                             /\ \A q \in WaitsIn(e.order) : e.order[q][2] = k => q = p
              /\ e.delay = 0 => WaitsIn(e.order) = {}
              /\ e.pc = "done" =>
                    Cardinality(WaitsIn(e.order)) =
                        Cardinality({k \in 1..N : WaitRequired(e, k)})

\* a finished call of three commands, none a delay step, that waited twice
C11_Witness ==
    /\ handlers[1].pc = "done"
    /\ handlers[1].caller = "direct"
    /\ handlers[1].delay > 0
    /\ Len(handlers[1].routine.commands) = 3
    /\ \A k \in 1..3 : handlers[1].routine.commands[k].type # "delay"
    /\ Cardinality(WaitsIn(handlers[1].order)) = 2

IsPrefix(s, t) == Len(s) <= Len(t) /\ SubSeq(t, 1, Len(s)) = s

\* C12: the step of recognizeAndExecute that recognizes invokes executeRoutine
\* on the recognized routine when the verdict is recognized and returns at
\* once without executing when it is not; while the execution runs it is not
\* invoked again, and what the call returns is the result the recognition
\* produced, whatever steps failed.
C12_ExecutesOnRecognizedReturnsVerdict ==
    [][LET e == handlers[1]
           after == handlers'[1]
       IN /\ (e.pc = "immediate" /\ after # e) =>
                LET result == Engine_recognize(e.points, routines)
                IN /\ after.result = result
                   /\ result.recognized =>
                         /\ after.pc \in ExecPcs \cup {"done"}
                         /\ after.routine = result.routine
                         /\ DOMAIN after.attempts = 1..Len(result.routine.commands)
                   /\ ~result.recognized =>
                         /\ after.pc = "done"
                         /\ after.routine = NoRoutine
                         /\ after.attempts = <<>>
                         /\ after.order = <<>>
          /\ e.pc \in ExecPcs =>
                /\ after.result = e.result
                /\ after.routine = e.routine
                /\ IsPrefix(e.order, after.order)
                /\ \A k \in 1..Len(e.attempts) : after.attempts[k] \in {e.attempts[k], 1}
      ]_vars

\* a call that has returned recognized = true after two of its steps failed
C12_Witness ==
    /\ handlers[1].pc = "done"
    /\ handlers[1].points # NoStroke
    /\ handlers[1].result.recognized
    /\ handlers[1].failCount = 2

\* C13: a save_routine call with an empty or whitespace name, with no command
\* or with no sample fails with an error and changes neither the in-memory
\* store nor the persisted state (nor issues a write of it).
C13_IncompleteSaveFailsAndChangesNothing ==
    [][\A routine \in ManagerRoutines :
          (Incomplete(routine) /\ callSaveRoutine(routine))
              => /\ lastCall'.returned = "threw"
                 /\ UNCHANGED <<routines, persisted, writes>>]_vars

\* C14: whatever save_routine, delete and toggle calls were made on the empty
\* store, every stored routine is stored under its own name, trimmed and not
\* empty, no two under one name, and has at least one command and at least
\* one sample.
C14_StoredRoutinesAreWellFormed ==
    /\ \A i \in 1..Len(routines) :
          /\ routines[i].name = Trim(routines[i].name)
          /\ Len(routines[i].name) > 0
          /\ Len(routines[i].commands) >= 1
          /\ Len(routines[i].samples) >= 1
    /\ \A i, j \in 1..Len(routines) : routines[i].name = routines[j].name => i = j

\* C15: a save_routine call that is accepted leaves its record with updatedAt
\* = the time of the call and with createdAt = the createdAt of the record it
\* replaces, or the time of the call when the name was not in the store; and
\* no call changes the createdAt of a name that is in the store before and
\* after it.
C15_SaveKeepsCreatedAt ==
    [][/\ \A routine \in ManagerRoutines :
             (callSaveRoutine(routine) /\ lastCall'.returned = "void")
                 => LET key == keyIn(build, routine)
                    IN /\ Get(routines', key).updatedAt = clock
                       /\ Get(routines', key).createdAt =
                              IF Has(routines, key) THEN Get(routines, key).createdAt
                              ELSE clock
       /\ \A name \in ManagerKeys :
             (Has(routines, name) /\ Has(routines', name))
                 => Get(routines', name).createdAt = Get(routines, name).createdAt]_vars

\* a routine created at one time has just been saved again at a later time
C15_Witness ==
    /\ lastCall = Returned("save_routine", "void")
    /\ Len(routines) = 1
    /\ routines[1].createdAt < routines[1].updatedAt
    /\ routines[1].updatedAt = clock

\* enabled read as the program reads it: anything but false is enabled
IsEnabled(r) == IF "enabled" \in DOMAIN r THEN r.enabled # FALSE ELSE TRUE

\* toggle of the routine manager on a stored name flips the flag, leaves every
\* other routine alone and returns true; on any other name it returns false
\* and changes nothing
ManagerToggleFlipsEnabled ==
    [][\A name \in ManagerKeys :
          callToggle(name)
              => IF Has(routines, name)
                 THEN /\ IsEnabled(Get(routines', name)) = ~IsEnabled(Get(routines, name))
                      /\ Remove(routines', name) = Remove(routines, name)
                      /\ lastCall'.returned = "true"
                 ELSE /\ UNCHANGED <<routines, persisted, writes>>
                      /\ lastCall'.returned = "false"]_vars

\* C16: a toggle of a stored routine flips its enabled state, an unset flag
\* counting as enabled, so that the first toggle of a freshly saved routine
\* disables it and a second one enables it again; a toggle of a name that is
\* not stored changes nothing.
C16_ToggleFlipsEnabled ==
    [][\A name \in ManagerKeys :
          toggleRoutineMessage(name)
              => IF Has(routines, name)
                 THEN /\ IsEnabled(Get(routines', name)) = ~IsEnabled(Get(routines, name))
                      /\ Remove(routines', name) = Remove(routines, name)
                 ELSE UNCHANGED <<routines, persisted, writes>>]_vars

\* C17: delete of a name that is not stored returns false and changes neither
\* the in-memory store nor the persisted state; delete of a stored name
\* removes that routine and no other, leaves the others as they were, issues
\* the write of the resulting map and returns true.
C17_DeleteRemovesExactlyTheNamedRoutine ==
    [][\A name \in ManagerKeys :
          callDelete(name)
              => IF \E i \in 1..Len(routines) : routines[i].name = name
                 THEN /\ routines' = SelectSeq(routines, LAMBDA r : r.name # name)
                      /\ Len(routines') = Len(routines) - 1
                      /\ writes' = Append(writes, routines')
                      /\ lastCall'.returned = "true"
                 ELSE /\ UNCHANGED <<routines, persisted, writes>>
                      /\ lastCall'.returned = "false"]_vars

\* one of two stored routines has just been deleted
C17_Witness ==
    /\ lastCall = Returned("delete", "true")
    /\ Len(routines) = 1
    /\ writes # <<>>
    /\ Len(persisted) = 2

\* a call of save_routine, delete or toggle
StoreCall ==
    \/ \E routine \in ManagerRoutines : callSaveRoutine(routine)
    \/ \E name \in ManagerKeys : callDelete(name)
    \/ \E name \in ManagerKeys : callToggle(name)

\* C18: the map getAll() or getEnabled() returned is a copy of its own: no
\* later save_routine, delete or toggle changes the map the caller holds or a
\* record in it, and no change the caller makes to the map or to a record in
\* it changes the store.
C18_ReturnedMapsAreDefensiveCopies ==
    [][/\ (held.op # "none" /\ StoreCall) => held'.map = held.map
       /\ \A name \in ManagerKeys :
             (callerDeletes(name) \/ callerDisables(name)) => UNCHANGED routines]_vars

\* the map after each whole mutation of the store made at the present time
WholeSave(message) ==
    LET key == Trim(message.name)
    IN Put(routines, [name      |-> key,
                      commands  |-> message.commands,
                      samples   |-> message.samples,
                      enabled   |-> TRUE,
                      delay     |-> message.delay,
                      createdAt |-> IF Has(routines, key)
                                    THEN Get(routines, key).createdAt ELSE clock,
                      updatedAt |-> clock])

WholeToggle(name) ==
    [i \in 1..Len(routines) |->
        IF routines[i].name = name
        THEN [routines[i] EXCEPT !.enabled = ~routines[i].enabled, !.updatedAt = clock]
        ELSE routines[i]]

\* C19: whatever store operations interleave with a recognition and the
\* execution it starts, every change of the store a reader can see is one
\* whole mutation (a record replaced by a save with all its fields, a record
\* toggled with both enabled and updatedAt written, a record removed), and
\* the record a recognition hands to the execution is a record of the store
\* as it stood at that recognition.
C19_ReadersSeeWholeMutations ==
    [][/\ routines' # routines
             => \/ \E message \in SaveMessages : routines' = WholeSave(message)
                \/ \E name \in Names : routines' = WholeToggle(name)
                \/ \E name \in Names : routines' = SelectSeq(routines, LAMBDA r : r.name # name)
       /\ \A h \in 1..MaxGestures :
             (handlers'[h].result.routine # handlers[h].result.routine
                  /\ handlers'[h].result.routine # NoRoutine)
                 => /\ UNCHANGED routines
                    /\ \E i \in 1..Len(routines) : handlers'[h].result.routine = routines[i]]_vars

\* an execution is under way with the record it was given, and the store's
\* record of that name has been toggled at a later time
C19_Witness ==
    /\ handlers[1].pc \in ExecPcs
    /\ Has(routines, handlers[1].routine.name)
    /\ Get(routines, handlers[1].routine.name).updatedAt > handlers[1].routine.updatedAt
    /\ ~Get(routines, handlers[1].routine.name).enabled

\* C20: every call that changes the in-memory map issues, in the same turn, a
\* persistence write of the map as changed, so whenever no write is pending
\* (no store operation is in progress) the persisted map is the in-memory
\* map, however save_routine, delete and toggle calls overlap.
C20_PersistedEqualsMemoryWhenQuiescent ==
    /\ [](writes = <<>> => persisted = routines)
    /\ [][routines' # routines
              => /\ Len(writes') = Len(writes) + 1
                 /\ writes'[Len(writes')] = routines']_vars

\* two store operations overlap: both their writes are pending
C20_Witness ==
    /\ Len(writes) = 2
    /\ writes[1] # writes[2]
    /\ persisted # writes[1]
    /\ writes[2] = routines

\* C21: a stroke of more than five points that ends while isProcessing is set
\* sends no recognizeGesture message, is dropped (points emptied, nothing kept
\* for later), shows 'Procesando...', and leaves isProcessing, the pending
\* timeout and the count of drawn gestures as they were.
C21_StrokeWhileProcessingIsDiscarded ==
    [][(isDrawing /\ ~isDrawing' /\ points.n > 5 /\ isProcessing)
           => /\ toHost' = toHost
              /\ points' = NoStroke
              /\ feedback' = "Procesando..."
              /\ UNCHANGED <<isProcessing, processingTimeout, timers, gestureCount>>]_vars

\* a stroke has just been refused while a request is in flight
C21_Witness ==
    /\ feedback = "Procesando..."
    /\ isProcessing
    /\ ~isDrawing
    /\ gestureCount = 1
    /\ Len(toHost) + Len(toWebview) <= 1

\* C22: once a stroke has set isProcessing the flag is cleared in the end,
\* and what clears it is the recognitionResult of the host or else the
\* callback of the 5-second timeout, which shows 'Timeout - reintenta'.
C22_ProcessingIsEventuallyCleared ==
    /\ isProcessing ~> ~isProcessing
    /\ [][(isProcessing /\ ~isProcessing')
              => \/ toWebview # <<>> /\ toWebview' = Tail(toWebview)
                 \/ feedback' = "Timeout - reintenta" /\ timers' # timers]_vars

\* the timeout has cleared the flag with the request still unanswered
C22_Witness ==
    /\ ~isProcessing
    /\ feedback = "Timeout - reintenta"
    /\ gestureCount = 1
    /\ toWebview = <<>>
    /\ recognizedCount = 0

\* C23: validate of a stroke of at least 5 points leaves the routine named
\* excludeRoutineName out: the score is the best score against the samples of
\* the other routines and the conflicting name is never the excluded one; and
\* when no other routine is stored it accepts with score 0 and no conflicting
\* name, without a call of the recognizer (no stroke normalized), however
\* close the stroke is to the samples of the excluded routine.
C23_ValidateIgnoresExcludedRoutine ==
    (PureDone /\ pure.cand.n >= 5) =>
        LET v == pure.validation[1]
            others == Compared(routines, pure.excl)
        IN /\ v.similarTo \in {Undefined} \cup {r.name : r \in others}
           /\ others = {} => (v.isValid /\ v.score = 0 /\ v.normalized = 0)
           /\ others # {} => v.score = BestScore(pure.cand, others)

\* the only stored routine is the excluded one and the stroke is one of its samples
C23_Witness ==
    /\ PureDone
    /\ Len(routines) = 1
    /\ routines[1].name = pure.excl
    /\ routines[1].samples[1] = pure.cand
    /\ pure.validation[1].isValid
    /\ pure.validation[1].score = 0

\* the score of a sample against a candidate, as recognize measures it
SampleScore(candidate, sample) ==
    1000 - distanceAtBestAngle(normalize(candidate), normalize(sample))

\* C24: a RecognitionResult with recognized = true carries the matched name,
\* the score, and the stored routine of that name, which is enabled; one with
\* recognized = false for a best score under the threshold carries no routine
\* but the name of the best match and its score; with no enabled routine the
\* result is not recognized, with score 0 and neither name nor routine.
C24_RecognitionResultIsWellFormed ==
    PureDone =>
        LET r == pure.recognition[1]
            enabled == EnabledStored(routines)
            named == {x \in enabled : x.name = r.routineName}
            IsBestScore ==
                /\ \E x \in named : \E j \in 1..Len(x.samples) :
                       r.score = SampleScore(pure.cand, x.samples[j])
                /\ \A x \in enabled : \A j \in 1..Len(x.samples) :
                       r.score >= SampleScore(pure.cand, x.samples[j])
        IN /\ r.recognized
                => /\ named # {}
                   /\ r.routine \in named
                   /\ r.routine.enabled
                   /\ IsBestScore
           /\ (~r.recognized /\ pure.cand.n >= 5 /\ enabled # {})
                => /\ r.routine = NoRoutine
                   /\ named # {}
                   /\ IsBestScore
                   /\ r.score < 800
           /\ enabled = {}
                => /\ ~r.recognized
                   /\ r.score = 0
                   /\ r.routineName = Undefined
                   /\ r.routine = NoRoutine

\* C27: validating a candidate identical to the stored sample of another
\* routine, which is not excluded, returns a rejection that names that routine
\* with a score above 0.78, for every stroke of at least 5 points, a
\* horizontal line included.
C27_IdenticalSampleIsRejected ==
    (/\ pure.phase \in {"validating", "validated"}
     /\ pure.cand.n >= 5
     /\ pure.cand = routines[1].samples[1]
     /\ pure.excl # routines[1].name)
        => /\ pure.phase = "validated"
           /\ ~pure.validation[1].isValid
           /\ pure.validation[1].similarTo = routines[1].name
           /\ pure.validation[1].score > 780

\* C28: for a stroke S of at least 5 points and a factor k, recognize(S, [S])
\* and recognize(kS, [S]) both return, with scores that differ by no more
\* than a thousandth.
C28_ScoreIsScaleInvariant ==
    (pure.phase \in {"recognizing", "recognized"} /\ pure.cand.n >= 5)
        => /\ pure.phase = "recognized"
           /\ Abs(pure.own[1].score - pure.scaled[1].score) <= 1

C25_SimilarityThresholdBelowRecognitionThreshold ==
    /\ SIMILARITY_THRESHOLD < RECOGNITION_THRESHOLD
    /\ LEGACY_SIMILARITY_THRESHOLD < LEGACY_RECOGNITION_THRESHOLD
    /\ PureDone =>
          /\ pure.validation[1].isValid
                => pure.validation[1].score < RECOGNITION_THRESHOLD
          /\ ~legacyValidateGesture(pure.cand, routines).isTooSimilar
                => /\ legacyValidateGesture(pure.cand, routines).score
                          < LEGACY_RECOGNITION_THRESHOLD
                   /\ ~legacyRecognizes(pure.cand, routines)

\* a candidate scoring 0.78: the validator accepts it, the engine does not
\* recognize it, and the handler of extension.ts finds it too similar
C25_Witness ==
    /\ PureDone
    /\ pure.cand.n >= 5
    /\ pure.validation[1].isValid
    /\ pure.validation[1].score = SIMILARITY_THRESHOLD
    /\ ~pure.recognition[1].recognized
    /\ legacyValidateGesture(pure.cand, routines).isTooSimilar

\* C26: a saveRoutine message is sent by the panel only with at least
\* REQUIRED_SAMPLES (3) recorded samples in it, whatever the sequence of new,
\* edit, next, back, draw and cancel that came before.
C26_SaveSendsRequiredSamples ==
    [][(/\ Len(cfgToHost') = Len(cfgToHost) + 1
        /\ cfgToHost'[Len(cfgToHost')].command = "saveRoutine")
           => Len(cfgToHost'[Len(cfgToHost')].samples) >= REQUIRED_SAMPLES]_vars

\* the calls step k has made outside the engine
StepCalls(e, k) == SelectSeq(e.calls, LAMBDA c : c.step = k)

\* the kind and the payload of a stored command as the claim reads them
StepKind(cmdObj) == IF "string" \in DOMAIN cmdObj THEN "plain string" ELSE cmdObj.type

StepPayload(cmdObj) == IF "string" \in DOMAIN cmdObj THEN cmdObj.string ELSE cmdObj.command

\* C30: every step of an execution is dispatched once, to one kind of action:
\* a delay step makes no call but the wait of its payload in milliseconds and
\* counts as a success even where the collaborators throw; a terminal-command
\* step makes one call, the submission of its payload to the terminal; a
\* vscode-command step, a command stored as a plain string and a step of an
\* unknown type make one call, the host command named by the payload.
C30_StepsDispatchToOneAction ==
    LET e == handlers[1]
        steps == 1..Len(e.routine.commands)
        kind(k) == StepKind(e.routine.commands[k])
        payload(k) == StepPayload(e.routine.commands[k])
    IN e.pc # "idle" =>
          /\ \A k \in steps :
                /\ e.attempts[k] <= 1
                /\ e.attempts[k] = 0 => StepCalls(e, k) = <<>>
                /\ e.attempts[k] = 1 =>
                      CASE kind(k) = "delay" ->
                              StepCalls(e, k) =
                                  IF parseIntOr0(payload(k)) > 0
                                  THEN <<TimerCall(k, parseIntOr0(payload(k)))>>
                                  ELSE <<>>
                        [] kind(k) = "terminal-command" ->
                              StepCalls(e, k) = <<TerminalCall(k, payload(k))>>
                        [] OTHER ->
                              StepCalls(e, k) = <<HostCall(k, payload(k))>>
          /\ e.pc = "done" =>
                /\ e.successCount =
                      Cardinality({k \in steps : kind(k) = "delay" \/ ~e.throws[k]})
                /\ e.failCount =
                      Cardinality({k \in steps : kind(k) # "delay" /\ e.throws[k]})

\* a finished execution of a plain-string command followed by a step of an
\* unknown type: two host commands were invoked, and nothing else
C30_Witness ==
    /\ handlers[1].pc = "done"
    /\ handlers[1].routine.commands = <<LegacyCmd, UnknownCmd>>
    /\ handlers[1].calls = <<HostCall(1, LegacyCmd.string), HostCall(2, UnknownCmd.command)>>
    /\ handlers[1].successCount = 2

(***************************************************************************)
(* SpecValidation: the sample step of the configuration panel, where a     *)
(* stroke may be drawn while the validation of an earlier one is still     *)
(* under way                                                               *)
(***************************************************************************)
MaxOutstanding == 2

NextValidation ==
    \/ btnNewRoutineClick
    \/ \E name \in InputNames : routineNameInputChanged(name)
    \/ blockClick
    \/ btnNextStepClick
    \/ startPosition
    \/ configDraw
    \/ \E shape \in ConfigShapes : finishedPositionWithin(shape, MaxOutstanding)
    \/ \E t \in 1..MaxValidations : validationTimeoutFires(t)
    \/ onConfigMessage
    \/ /\ configOnDidReceiveMessage("validateGesture")
       /\ handleValidateGesture(Head(cfgToHost))
    \/ validateGestureCallback

\* routine A saved from strokes on which resample does not return
ConfigRoutineLongStart ==
    [ConfigRoutineA EXCEPT
        !.samples = [k \in 1..REQUIRED_SAMPLES |-> [n |-> 6, shape |-> 0, ties |-> "forever"]]]

\* the panel open on either store
InitValidation ==
    /\ routines \in {save_routine(<<>>, ConfigRoutineA, 1),
                      save_routine(<<>>, ConfigRoutineLongStart, 1)}
    /\ InitCanvas
    /\ InitHost
    /\ panel = [ClosedPanel EXCEPT !.open = TRUE, !.routines = routines]
    /\ cfgToHost = <<>>
    /\ cfgToWebview = <<>>
    /\ hostTimers = <<>>
    /\ InitManager
    /\ pure = PureIdle

SpecValidation == InitValidation /\ [][NextValidation]_vars

\* C32: a stroke is added to the recorded samples only by the gestureValidation
\* reply of that very stroke, and only if that reply reports it valid: the
\* stroke that is pending is the one of the latest request, so the reply that
\* records it carries the latest request id.
C32_OnlyItsOwnReplyRecordsAStroke ==
    [][(/\ cfgToWebview # <<>>
        /\ cfgToWebview' = Tail(cfgToWebview)
        /\ panel'.recordedSamples # panel.recordedSamples)
       => (/\ Head(cfgToWebview).command = "gestureValidation"
           /\ Head(cfgToWebview).isValid
           /\ Head(cfgToWebview).requestId = panel.validationRequestId
           /\ panel'.recordedSamples =
                 Append(panel.recordedSamples, panel.pendingValidation))]_vars

\* C33: the 3000 ms callback of one stroke discards the pending validation of
\* that stroke only: when it runs while the callback of a later stroke is still
\* armed (the later request is less than 3 seconds old), it leaves the pending
\* validation alone.
C33_TimeoutDiscardsOnlyItsOwnStroke ==
    [][(/\ panel.timers # <<>>
        /\ panel'.timers = Tail(panel.timers)
        /\ Head(panel.timers) < panel.validationRequestId)
       => panel'.pendingValidation = panel.pendingValidation]_vars

\* C31: when the host handles the saveRoutine message of a valid routine (a name,
\* at least one command, at least one sample) while the panel is open, the save
\* completes without error: the routine is stored under its trimmed name with
\* the samples of the message, the stored map is persisted, the recognizer's
\* cache is invalidated and the handler goes on to post routinesUpdated, so
\* that a recognition started afterwards reads the samples just saved.
C31_ValidSaveCompletesWithoutError ==
    [][(/\ cfgToHost # <<>>
        /\ Head(cfgToHost).command = "saveRoutine"
        /\ cfgToHost' = Tail(cfgToHost)
        /\ ~save_routine_throws(Head(cfgToHost))
        /\ panel.open)
       => (/\ Has(routines', Trim(Head(cfgToHost).name))
           /\ Get(routines', Trim(Head(cfgToHost).name)).samples = Head(cfgToHost).samples
           /\ persisted' = routines'
           /\ cfgToWebview' = Append(cfgToWebview,
                                     [command |-> "routinesUpdated",
                                      routines |-> getAll(routines')]))]_vars

\* C34: the in-flight flag set by a request is cleared only by that request's
\* own recognitionResult or its own 5-second timeout: handling the
\* recognitionResult of an earlier request while the latest request is still
\* outstanding leaves the flag set and the latest request's timeout armed.
C34_LateResultLeavesLaterRequestAlone ==
    [][(/\ toWebview # <<>>
        /\ toWebview' = Tail(toWebview)
        /\ Head(toWebview).req < gestureCount
        /\ Outstanding(gestureCount)
        /\ isProcessing
        /\ gestureCount \in timers)
       => (isProcessing' /\ gestureCount \in timers')]_vars

(***************************************************************************)
(* SpecReopen: the canvas session of Spec in which the canvas may be       *)
(* closed and opened again while the host is still at work                 *)
(***************************************************************************)
MaxPanels == 2

\* a webview that has just loaded its script; the messages to and from the
\* panel that was disposed are dropped with it
NewWebview ==
    /\ isDrawing' = FALSE
    /\ points' = NoStroke
    /\ isProcessing' = FALSE
    /\ processingTimeout' = 0
    /\ gestureCount' = 0
    /\ recognizedCount' = 0
    /\ feedback' = ""
    /\ timers' = {}
    /\ toHost' = <<>>
    /\ toWebview' = <<>>

\* show(): the panel there is, if any, is disposed and a new one is created;
\* the calls of handleRecognition under way go on
show ==
    /\ provider.created < MaxPanels
    /\ provider' = [panel   |-> provider.created + 1,
                    created |-> provider.created + 1,
                    earlier |-> provider.earlier + gestureCount]
    /\ NewWebview
    /\ UNCHANGED <<routines, handlers, pure>>
    /\ UNCHANGED configVars
    /\ UNCHANGED <<clock, persisted, writes, lastCall, held, build>>

\* the user closes the canvas: onDidDispose sets this.panel = undefined
onDidDispose ==
    /\ provider.panel # 0
    /\ provider' = [provider EXCEPT !.panel = 0,
                                    !.earlier = provider.earlier + gestureCount]
    /\ NewWebview
    /\ UNCHANGED <<routines, handlers, pure>>
    /\ UNCHANGED configVars
    /\ UNCHANGED <<clock, persisted, writes, lastCall, held, build>>

\* the canvas takes input while its panel exists
CanvasNext ==
    \/ startDrawing
    \/ draw
    \/ \E shape \in CanvasShapes : stopDrawing(shape)
    \/ \E t \in 1..MaxGestures : processingTimeoutFires(t)
    \/ onRecognitionResult
    \/ onDidReceiveMessage

NextReopen ==
    \/ provider.panel # 0 /\ CanvasNext
    \/ \E h \in 1..MaxGestures : recognizeAndExecute(h)
    \/ \E h \in 1..MaxGestures : focusRestored(h)
    \/ \E h \in 1..MaxGestures : waitElapsed(h)
    \/ \E h \in 1..MaxGestures : stepSettles(h)
    \/ show
    \/ onDidDispose

SpecReopen == Init /\ [][NextReopen]_vars

\* C35: a recognitionResult is posted only to the panel that sent the
\* recognizeGesture request it answers: every result on its way to the panel
\* answers a request of that panel, never one of a panel disposed before.
C35_ResultGoesToThePanelThatAsked ==
    \A k \in 1..Len(toWebview) : toWebview[k].req > provider.earlier

(***************************************************************************)
(* SpecAnswers: the canvas session of Spec over either of two stores, the  *)
(* second holding a sample whose first segment is long, in which the host  *)
(* runs every callback that is ready                                       *)
(***************************************************************************)
\* routine B saved from a stroke on which resample does not return
RoutineLongStart ==
    [RoutineB EXCEPT !.samples = <<[n |-> 6, shape |-> 220, ties |-> "forever"]>>]

InitAnswers ==
    /\ routines \in {save_routine(save_routine(<<>>, RoutineA, 1), RoutineB, 1),
                     save_routine(save_routine(<<>>, RoutineA, 1), RoutineLongStart, 1)}
    /\ InitCanvas
    /\ InitHost
    /\ InitNoPanel
    /\ InitManager
    /\ pure = PureIdle

\* a step of the extension host: a message is delivered, a callback that is
\* ready runs or the promise of a collaborator settles
HostStep ==
    \/ onDidReceiveMessage
    \/ \E h \in 1..MaxGestures : recognizeAndExecute(h)
    \/ \E h \in 1..MaxGestures : focusRestored(h)
    \/ \E h \in 1..MaxGestures : waitElapsed(h)
    \/ \E h \in 1..MaxGestures : stepSettles(h)

\* the event loop of the host does not stop while it has something to run
HostRuns == WF_vars(HostStep)

SpecAnswers == InitAnswers /\ [][Next]_vars /\ HostRuns

\* the host has received request req and has not posted its result
Received(req) == handlers[req].pc # "idle" /\ handlers[req].caller = "canvas"

\* C36: every recognizeGesture message that the host has received is answered
\* in the end: the call of handleRecognition it started ends and posts the
\* recognitionResult of the request.
C36_EveryRequestIsAnswered ==
    \A req \in 1..MaxGestures :
        Received(req) ~> (~Received(req) /\ InToWebview(req))

(***************************************************************************)
(* SpecEdits: one call of recognizeAndExecute, kept with what it returns,   *)
(* while routine A is saved again with other commands, deleted or toggled   *)
(***************************************************************************)
RoutineAEdited == [RoutineA EXCEPT !.commands = <<TermCmd>>, !.delay = 0]

EditMessages == SaveMessages \cup {RoutineAEdited}

NextEdits ==
    \/ \E stroke \in CallStrokes : callEngine(stroke)
    \/ recognizeAndExecute(1)
    \/ focusRestored(1)
    \/ waitElapsed(1)
    \/ stepSettles(1)
    \/ \E message \in EditMessages, clearCacheRejects \in BOOLEAN :
          handleSaveRoutine(message, clearCacheRejects) /\ UNCHANGED cfgToHost
    \/ \E name \in Names : handleDeleteRoutine(name) /\ UNCHANGED cfgToHost
    \/ \E name \in Names : handleToggleRoutine(name) /\ UNCHANGED cfgToHost

SpecEdits == Init /\ [][NextEdits]_vars

\* the steps of commands before which the loop waits, up to step upTo
WaitedSteps(commands, delay, upTo) ==
    {k \in 2..upTo : delay > 0 /\ toRoutineCommand(commands[k]).type # "delay"}

\* C37: an execution runs the command list and the delay of the record that
\* the recognition returned: a save, a delete or a toggle changes nothing of an
\* execution under way, and the execution goes through every step of that
\* record in order, waiting before the steps that record asks it to, and
\* ends with every step counted.
C37_ExecutionKeepsTheRecognizedRoutine ==
    /\ [](LET e == handlers[1]
              r == e.result.routine
          IN (e.pc \in ExecPcs \cup {"done"} /\ e.result.recognized) =>
                /\ e.routine = r
                /\ e.delay = r.delay
                /\ e.i \in 1..(Len(r.commands) + 1)
                /\ \A k \in 1..Len(r.commands) :
                      e.attempts[k] = IF k < e.i \/ (k = e.i /\ e.pc = "run") THEN 1 ELSE 0
                /\ {k \in 1..Len(r.commands) :
                       \E p \in 1..Len(e.order) : e.order[p] = <<"wait", k>>}
                      = WaitedSteps(r.commands, r.delay,
                                    IF e.pc = "done" THEN Len(r.commands) ELSE e.i)
                /\ (e.pc = "done") =>
                      /\ e.i = Len(r.commands) + 1
                      /\ e.successCount + e.failCount = Len(r.commands))
    /\ [][routines' # routines => handlers' = handlers]_vars

\* the execution of A is suspended in the wait before its third step, and the
\* store holds A with the single command it was saved with meanwhile
C37_Witness ==
    /\ handlers[1].pc = "wait"
    /\ handlers[1].i = 3
    /\ handlers[1].routine.commands = RoutineA.commands
    /\ Has(routines, "A")
    /\ Get(routines, "A").commands = RoutineAEdited.commands

(***************************************************************************)
(* SpecTest: executeRoutine called on a routine of the catalogue and        *)
(* handleTestRoutine handling the testRoutine message of the same commands  *)
(* and delay, with the same collaborators throwing                          *)
(***************************************************************************)
\* terminal.sendText on the terminal of getOrCreateTestTerminal()
TestTerminalCall(i, text) == [step |-> i, collaborator |-> "testTerminal", payload |-> text]

RECURSIVE TestLoopFrom(_)
RECURSIVE TestDispatch(_)

\* the try block of handleTestRoutine with a step that throws ending the test
TestDispatch_stopsAtFailure(e) ==
    LET cmd == toRoutineCommand(e.routine.commands[e.i])
        e1 == [e EXCEPT !.attempts[e.i] = @ + 1, !.order = Append(@, <<"begin", e.i>>)]
    IN CASE cmd.type = "delay" ->
              IF parseIntOr0(cmd.command) > 0
              THEN [e1 EXCEPT !.pc = "run",
                              !.calls = Append(@, TimerCall(e.i, parseIntOr0(cmd.command)))]
              ELSE TestLoopFrom(StepSucceeds(e1))
         [] cmd.type = "terminal-command" ->
              LET e2 == [e1 EXCEPT !.calls = Append(@, TestTerminalCall(e.i, cmd.command))]
              IN TestLoopFrom(IF e.throws[e.i] THEN StepFails_aborting(e2)
                              ELSE StepSucceeds(e2))
         [] OTHER ->
              [e1 EXCEPT !.pc = "run", !.calls = Append(@, HostCall(e.i, cmd.command))]

\* the head of the for loop of handleTestRoutine at step e.i
TestLoopFrom(e) ==
    IF e.i > Len(e.routine.commands) THEN [e EXCEPT !.pc = "finished"]
    ELSE IF e.i > 1 /\ e.delay > 0 /\ toRoutineCommand(e.routine.commands[e.i]).type # "delay"
         THEN [e EXCEPT !.pc = "wait", !.order = Append(@, <<"wait", e.i>>)]
         ELSE TestDispatch(e)

\* the try block of handleTestRoutine at step e.i
TestDispatch(e) ==
    LET cmd == toRoutineCommand(e.routine.commands[e.i])
        e1 == [e EXCEPT !.attempts[e.i] = @ + 1, !.order = Append(@, <<"begin", e.i>>)]
    IN CASE cmd.type = "delay" ->
              IF parseIntOr0(cmd.command) > 0
              THEN [e1 EXCEPT !.pc = "run",
                              !.calls = Append(@, TimerCall(e.i, parseIntOr0(cmd.command)))]
              ELSE TestLoopFrom(StepSucceeds(e1))
         [] cmd.type = "terminal-command" ->
              LET e2 == [e1 EXCEPT !.calls = Append(@, TestTerminalCall(e.i, cmd.command))]
              IN TestLoopFrom(IF e.throws[e.i] THEN StepFails(e2) ELSE StepSucceeds(e2))
         [] OTHER ->
              [e1 EXCEPT !.pc = "run", !.calls = Append(@, HostCall(e.i, cmd.command))]

\* the awaited promise of step e.i of the test settles
TestResume(e) ==
    LET cmd == toRoutineCommand(e.routine.commands[e.i])
    IN IF cmd.type = "delay" THEN TestLoopFrom(StepSucceeds(e))
       ELSE TestLoopFrom(IF e.throws[e.i] THEN StepFails(e) ELSE StepSucceeds(e))

\* handleTestRoutine(message) up to its first suspension
handleTestRoutine(e, message, throws) ==
    TestLoopFrom([e EXCEPT !.routine = message,
                           !.delay = message.delay,
                           !.i = 1,
                           !.successCount = 0,
                           !.failCount = 0,
                           !.attempts = [k \in 1..Len(message.commands) |-> 0],
                           !.throws = throws,
                           !.caller = "test",
                           !.order = <<>>,
                           !.calls = <<>>])

\* the panel asks for a test of the commands and the delay that executeRoutine
\* has been called with
callTestRoutine ==
    /\ handlers[1].pc # "idle"
    /\ handlers[2].pc = "idle"
    /\ Settle(2, handleTestRoutine(IdleHandler,
                                   [command  |-> "testRoutine",
                                    commands |-> handlers[1].routine.commands,
                                    delay    |-> handlers[1].routine.delay],
                                   handlers[1].throws))
    /\ UNCHANGED <<routines, toHost, pure>>
    /\ UNCHANGED canvasVars
    /\ UNCHANGED configVars
    /\ UNCHANGED managerVars

\* the inter-command setTimeout of the test fires
testWaitElapsed ==
    /\ handlers[2].pc = "wait"
    /\ Settle(2, TestDispatch([handlers[2] EXCEPT
                                  !.order = Append(@, <<"waited", handlers[2].i>>)]))
    /\ UNCHANGED <<routines, toHost, pure>>
    /\ UNCHANGED canvasVars
    /\ UNCHANGED configVars
    /\ UNCHANGED managerVars

\* the promise of the running step of the test settles
testStepSettles ==
    /\ handlers[2].pc = "run"
    /\ Settle(2, TestResume(handlers[2]))
    /\ UNCHANGED <<routines, toHost, pure>>
    /\ UNCHANGED canvasVars
    /\ UNCHANGED configVars
    /\ UNCHANGED managerVars

NextTest ==
    \/ \E routine \in ExecRoutines, hasEditor \in BOOLEAN :
          \E throws \in ThrowPatterns(routine.commands) :
             callExecuteRoutine(routine, throws, hasEditor)
    \/ focusRestored(1)
    \/ waitElapsed(1)
    \/ stepSettles(1)
    \/ callTestRoutine
    \/ testWaitElapsed
    \/ testStepSettles

SpecTest == Init /\ [][NextTest]_vars

\* a call outside the engine without the terminal it goes to
CallMade(c) ==
    IF c.collaborator \in {"terminal", "testTerminal"}
    THEN [step |-> c.step, collaborator |-> "sendText", payload |-> c.payload]
    ELSE c

CallsMade(e) == [k \in 1..Len(e.calls) |-> CallMade(e.calls[k])]

\* the execution and the test of the same commands have both ended
BothEnded == handlers[1].pc = "done" /\ handlers[2].pc = "done"

C39_EveryValidationIsAnswered ==
    [][(/\ hostTimers # <<>>
        /\ hostTimers' = Tail(hostTimers)
        /\ panel.open)
       => /\ Len(cfgToWebview') = Len(cfgToWebview) + 1
          /\ cfgToWebview'[Len(cfgToWebview')].command = "gestureValidation"
          /\ cfgToWebview'[Len(cfgToWebview')].requestId = Head(hostTimers).requestId]_vars

=============================================================================
